---- MODULE Spec2Model ----
(***************************************************************************)
(* Model of huawei_solar.AsyncHuaweiSolar: the session object that talks   *)
(* to the inverter through a pymodbus client.  Tasks of one asyncio event  *)
(* loop call get_multiple, set, get_file, login and heartbeat on one       *)
(* session.  One step of the model is the code a task runs between two     *)
(* suspension points (await of the gate, of a transport call, of a sleep). *)
(***************************************************************************)
EXTENDS Integers, Sequences, FiniteSets, TLC

(***************************************************************************)
(* Bounds of the model and constants of the program                        *)
(***************************************************************************)
\* number of caller tasks of the concurrent specification
NumTasks == 2
\* longest list of names handed to get_multiple in SpecGet
MaxNames == 3
\* max_tries of the backoff decorator of _do_read
MaxTries == 5
\* the gap cap of get_multiple
MaxGap == 64
\* FILE_UPLOAD_MAX_RETRIES
FileUploadMaxRetries == 6
\* most Data frames one get_file asks for
MaxFrames == 2
\* the frame numbers UploadModbusRequest.encode packs into its two bytes lie
\* below this one
FrameNoLimit == 65536
\* longest file the inverter announces in SpecFile
MaxFileLength == 3

Tasks == 1..NumTasks
NoTask == 0

\* HEARTBEAT_REGISTER
HeartbeatRegister == 49999

\* the bridges on the one session: the one HuaweiSolarBridge.create made with
\* the session, and one made by create_extra_slave
Bridges == {"primary", "extra"}
NoBridge == "none"

\* the task start_heartbeat creates for a bridge
HeartbeatTask(b) == IF b = "primary" THEN NumTasks + 1 ELSE NumTasks + 2
HeartbeatTasks == {HeartbeatTask(b) : b \in Bridges}
AllTasks == Tasks \cup HeartbeatTasks

(***************************************************************************)
(* The register catalog.  A and B are the registers of the adjacency       *)
(* scenario; C follows A directly; D lies 64 words behind A, E 65 words.   *)
(* X is a name the catalog does not know.  The registers behind them are   *)
(* the ones create and the bridge read by name, one word each, and for     *)
(* each list of update the first register of the list.                     *)
(***************************************************************************)
\* the registers of the scenarios
ScenarioNames == {"A", "B", "C", "D", "E"}

\* a register of one word that is only read
ReadOnly(address) == [register |-> address, length |-> 1, writeable |-> FALSE]

REGISTERS ==
    "A" :> [register |-> 100, length |-> 2, writeable |-> FALSE] @@
    "B" :> [register |-> 101, length |-> 1, writeable |-> FALSE] @@
    "C" :> [register |-> 102, length |-> 1, writeable |-> TRUE] @@
    "D" :> [register |-> 166, length |-> 1, writeable |-> FALSE] @@
    "E" :> [register |-> 167, length |-> 2, writeable |-> TRUE] @@
    "SMARTLOGGER_FIRST_SLAVE_POWER" :> ReadOnly(110) @@
    "SMARTLOGGER_TIME_ZONE" :> ReadOnly(111) @@
    "TIME_ZONE" :> [register |-> 112, length |-> 1, writeable |-> TRUE] @@
    "STORAGE_UNIT_1_PRODUCT_MODEL" :> ReadOnly(113) @@
    "STORAGE_UNIT_2_PRODUCT_MODEL" :> ReadOnly(114) @@
    "NB_PV_STRINGS" :> ReadOnly(115) @@
    "NB_OPTIMIZERS" :> ReadOnly(116) @@
    "METER_STATUS" :> ReadOnly(117) @@
    "METER_TYPE" :> ReadOnly(118) @@
    "MODEL_NAME" :> ReadOnly(119) @@
    "SERIAL_NUMBER" :> ReadOnly(120) @@
    "INPUT_POWER" :> ReadOnly(121) @@
    "PV_01_VOLTAGE" :> ReadOnly(122) @@
    "PV_01_CURRENT" :> ReadOnly(123) @@
    "PV_02_VOLTAGE" :> ReadOnly(124) @@
    "PV_02_CURRENT" :> ReadOnly(125) @@
    "NB_ONLINE_OPTIMIZERS" :> ReadOnly(126) @@
    "GRID_A_VOLTAGE" :> ReadOnly(127) @@
    "STORAGE_STATE_OF_CAPACITY" :> ReadOnly(128)

KnownNames == DOMAIN REGISTERS
AllNames == ScenarioNames \cup {"X"}

\* every list of at most n names
NameLists(n) == UNION {[1..k -> AllNames] : k \in 0..n}

\* the holding registers the catalog reaches, and what the inverter may hold in
\* them: every word differs from the others, in one byte or in both
Addresses == 100..168
Memories == {[a \in Addresses |-> (a * k) % 65536] : k \in {1, 129, 190}}

(***************************************************************************)
(* Results of a call: what the awaiting caller gets                        *)
(***************************************************************************)
NoResult == [status |-> "none", what |-> "", msg |-> "", tries |-> 0]
Returned(v) == [status |-> "returned", what |-> v, msg |-> "", tries |-> 0]
Raised(e, m) == [status |-> "raised", what |-> e, msg |-> m, tries |-> 0]
RaisedAfter(e, m, n) == [status |-> "raised", what |-> e, msg |-> m, tries |-> n]

\* a request as the transport gets it: the call, and its two arguments
\* (address and count of a read or write, the frame number of a Data request)
NoRequest == [fn |-> "none", a |-> 0, b |-> 0]
Request(fn, a, b) == [fn |-> fn, a |-> a, b |-> b]

\* None where a field of a bridge or of the session holds a number
None == 0 - 1
\* StorageProductModel.NONE, MeterStatus.NORMAL
StorageProductModelNONE == 0
MeterStatusNORMAL == 1

\* the session as the constructor leaves it for the slave given to create,
\* with how far create is: "none" before it is called, "connecting" while the
\* transport is set up, "probing" in _initialize, "created" when it has
\* returned the session, "failed" when it has raised
NewSession(slave, state) ==
    [state |-> state, slave |-> slave, time_zone |-> None,
     battery_type |-> None, detected_smart_logger |-> FALSE]

\* a bridge as the constructor leaves it: slave_id is "slave_id or 0", and
\* has_optimizers is False, the 0 of the numbers it gets later
NewBridge(slave_id, made) ==
    [made |-> made, slave_id |-> IF slave_id = None THEN 0 ELSE slave_id,
     pv_string_count |-> 0, has_optimizers |-> 0,
     battery_1_type |-> StorageProductModelNONE,
     battery_2_type |-> StorageProductModelNONE,
     power_meter_type |-> None]

\* no method of a bridge under way
NoFrame == [method |-> "none", step |-> "none", keys |-> {}]

\* the locals of login once the login response is there: content[1], whether
\* the echoed mac is the digest of the client challenge, whether the error
\* about it was logged
NoLoginResponse == [status |-> 0 - 1, mac_ok |-> TRUE, logged |-> FALSE]

VARIABLES
    connected,    \* is_client_connected()
    lock,         \* the task holding _communication_lock, or NoTask
    waiters,      \* the tasks suspended in _communication_lock.acquire(), in order
    inflight,     \* the transport operations awaiting their response: <<task, name>>
    pc,           \* where each task is suspended
    op,           \* the method each task is in
    names,        \* the names argument of get_multiple
    tries,        \* details['tries'] of the backoff decorator
    result,       \* what the call returned or raised
    file,         \* the locals of get_file._do_read_file
    attempts,     \* transport calls issued for the current request of the call
    backoffs,     \* backoff sleeps that elapsed for the current request
    cooldowns,    \* cooldown sleeps that elapsed in the current call
    acquired,     \* whether the current call took the gate
    lastOutcome,  \* the outcome of the last transport call of the current call
    lastRead,     \* the wire as the logical reads left it
    memory,       \* the holding registers of the inverter
    request,      \* the last request each task handed to the transport
    response,     \* the registers of the read response of the current call
    values,       \* the values get_multiple decoded
    login_response,   \* the locals of login after the login response
    via,          \* the bridge whose method made the current call of a task
    enable_heartbeat, \* HuaweiSolarBridge.__enable_heartbeat
    heartbeat_task,   \* HuaweiSolarBridge.__heartbeat_task
    logged_in,    \* the bridges whose client.login returned True
    stopped,      \* the bridges whose stop returned after their last start_heartbeat
    client_stopped,   \* _client.stop() was called
    session,      \* the fields of the AsyncHuaweiSolar object, and how far create is
    bridge,       \* the fields of each HuaweiSolarBridge object
    frame         \* the method of a bridge, or create, a task is in, and its locals

\* the state of the bridges and of what surrounds the session
surroundings == <<memory, enable_heartbeat, heartbeat_task, logged_in, stopped,
                  client_stopped>>
\* what a call keeps of what it heard, and the frame it was made from
heard == <<response, values, login_response, via>>

\* the objects create, create_extra_slave and the probing fill in
probing == <<session, bridge, frame>>

vars == <<connected, lock, waiters, inflight, pc, op, names, tries, result, file,
          attempts, backoffs, cooldowns, acquired, lastOutcome, lastRead,
          memory, request, response, values, login_response, via,
          enable_heartbeat, heartbeat_task, logged_in, stopped, client_stopped,
          session, bridge, frame>>

(***************************************************************************)
(* get_multiple: the checks made before anything is read                   *)
(***************************************************************************)
\* CheckPair comparing the addresses alone, the length of a forgotten
CheckPairIgnoresLength(a, b) ==
    IF a.register > b.register
    THEN "order"
    ELSE IF a.register + a.length - b.register > MaxGap
         THEN "gap"
         ELSE ""

\* one turn of the loop over consecutive registers: the message of the
\* ValueError it raises, or "" when the pair passes
CheckPair(a, b) ==
    IF a.register + a.length > b.register
    THEN "order"
    ELSE IF a.register + a.length - b.register > MaxGap
         THEN "gap"
         ELSE ""

\* the loop: the first pair that raises decides
RECURSIVE CheckFrom(_, _)
CheckFrom(registers, idx) ==
    IF idx > Len(registers)
    THEN ""
    ELSE LET m == CheckPair(registers[idx - 1], registers[idx])
         IN  IF m # "" THEN m ELSE CheckFrom(registers, idx + 1)

\* all the checks of get_multiple: the message of the ValueError, or ""
CheckNames(ns) ==
    IF Len(ns) = 0
    THEN "empty"
    ELSE IF \E i \in 1..Len(ns) : ns[i] \notin KnownNames
         THEN "unknown"
         ELSE CheckFrom([i \in 1..Len(ns) |-> REGISTERS[ns[i]]], 2)

(***************************************************************************)
(* get_multiple: the one read it asks for, and the decoding of its answer  *)
(***************************************************************************)
\* total_length adding up the lengths of the registers, the gaps forgotten
total_length_of_fields(registers) ==
    LET RECURSIVE Sum(_)
        Sum(i) == IF i = 0 THEN 0 ELSE registers[i].length + Sum(i - 1)
    IN  Sum(Len(registers))

\* the length of the read: from the first register to the end of the last one
total_length(registers) ==
    registers[Len(registers)].register + registers[Len(registers)].length
        - registers[1].register

\* the request _read_registers makes for the names ns
ReadRequest(ns) ==
    LET registers == [i \in 1..Len(ns) |-> REGISTERS[ns[i]]]
    IN  Request("read_holding_registers", registers[1].register,
                total_length(registers))

\* the registers a valid response to request rq carries when the inverter
\* holds mem
ReadRegisters(mem, rq) == [i \in 1..rq.b |-> mem[rq.a + i - 1]]

\* BinaryPayloadDecoder.fromRegisters: two bytes a register, the high one first
RECURSIVE fromRegisters(_)
fromRegisters(registers) ==
    IF registers = <<>>
    THEN <<>>
    ELSE <<Head(registers) \div 256, Head(registers) % 256>>
             \o fromRegisters(Tail(registers))

\* the decoder over a response: its payload and its pointer
BinaryPayloadDecoder(registers) ==
    [payload |-> fromRegisters(registers), pointer |-> 0]

skip_bytes(decoder, nbytes) == [decoder EXCEPT !.pointer = @ + nbytes]

\* the big-endian unsigned number in the n bytes behind position from
RECURSIVE Unsigned(_, _, _)
Unsigned(payload, from, n) ==
    IF n = 0
    THEN 0
    ELSE Unsigned(payload, from, n - 1) * 256 + payload[from + n]

\* reg.decode: the value of a register of length words at the pointer, high
\* word first, and the decoder behind it
decode(reg, decoder) == Unsigned(decoder.payload, decoder.pointer, 2 * reg.length)
Decoded(reg, decoder) == skip_bytes(decoder, 2 * reg.length)

\* SkipBytes taking the registers of the gap for bytes
SkipBytesAsRegisters(skip_registers) == skip_registers

\* the bytes to skip for a gap of skip_registers registers
SkipBytes(skip_registers) == skip_registers * 2

\* the loop over the registers behind the first: skip the gap, decode, append
RECURSIVE DecodeFrom(_, _, _, _)
DecodeFrom(registers, idx, decoder, results) ==
    IF idx > Len(registers)
    THEN results
    ELSE LET skip_registers ==
                 registers[idx].register
                     - (registers[idx - 1].register + registers[idx - 1].length)
             d == skip_bytes(decoder, SkipBytes(skip_registers))
         IN  DecodeFrom(registers, idx + 1, Decoded(registers[idx], d),
                        Append(results, decode(registers[idx], d)))

\* what get_multiple(ns) returns for the registers of the response
DecodeResponse(ns, registers_read) ==
    LET registers == [i \in 1..Len(ns) |-> REGISTERS[ns[i]]]
        decoder == BinaryPayloadDecoder(registers_read)
    IN  DecodeFrom(registers, 2, Decoded(registers[1], decoder),
                   <<decode(registers[1], decoder)>>)

\* what get(name) returns from an inverter that holds mem and answers the
\* read: the one result of get_multiple of the one name
GetValue(mem, name) ==
    DecodeResponse(<<name>>, ReadRegisters(mem, ReadRequest(<<name>>)))[1]

(***************************************************************************)
(* The retry policy of the backoff decorator                               *)
(***************************************************************************)
\* the exceptions backoff.on_exception retries
RetryExceptions == {"TimeoutError", "SlaveBusyException"}

\* BackoffDecision giving up one try late
BackoffDecisionOneMore(e, n, max) ==
    IF e \notin RetryExceptions
    THEN "raise"
    ELSE IF n > max THEN "giveup" ELSE "backoff"

\* what the decorator does with exception e of try n out of max
BackoffDecision(e, n, max) ==
    IF e \notin RetryExceptions
    THEN "raise"
    ELSE IF n = max THEN "giveup" ELSE "backoff"

\* what the transport answers to read_holding_registers
ReadOutcomes == {"Valid", "SlaveBusy", "Timeout", "IllegalAddress", "ConnectionError"}

\* DoReadRaises taking every exception response for SlaveBusy
DoReadRaisesAlwaysBusy(o) ==
    CASE o = "Valid" -> ""
      [] o \in {"SlaveBusy", "IllegalAddress"} -> "SlaveBusyException"
      [] o = "Timeout" -> "TimeoutError"
      [] OTHER -> "ReadException"

\* the exception _do_read raises for an outcome; "" when it returns the response
DoReadRaises(o) ==
    CASE o = "Valid" -> ""
      [] o = "SlaveBusy" -> "SlaveBusyException"
      [] o = "Timeout" -> "TimeoutError"
      [] OTHER -> "ReadException"

(***************************************************************************)
(* What the transport answers, and what the methods make of it             *)
(***************************************************************************)
\* write_registers: a response echoing the request, a response echoing
\* something else, Modbus exception codes 0x06, 0x80 and another one,
\* a timeout, a pymodbus ConnectionException
WriteOutcomes == {"Valid", "BadEcho", "SlaveBusy", "PermissionDenied",
                  "IllegalAddress", "Timeout", "ConnectionError"}

\* the exception write_registers raises for an outcome; "" when it returns
WriteRaises(o) ==
    CASE o \in {"Valid", "BadEcho"} -> ""
      [] o = "PermissionDenied" -> "PermissionDenied"
      [] o = "Timeout" -> "TimeoutError"
      [] o = "ConnectionError" -> "ConnectionException"
      [] OTHER -> "WriteException"

\* execute of a file upload request that does not bring its content
FileErrors == {"SlaveBusy", "PermissionDenied", "IllegalAddress", "Timeout",
               "ConnectionError"}

\* PerformRequestRaises taking every exception code but 0x80 for SlaveBusy
PerformRequestRaisesBusy(o) ==
    CASE o = "PermissionDenied" -> "PermissionDenied"
      [] o \in {"SlaveBusy", "IllegalAddress"} -> "SlaveBusyException"
      [] o = "Timeout" -> "TimeoutError"
      [] OTHER -> "ModbusConnectionException"

\* the exception _perform_request raises for such an outcome
PerformRequestRaises(o) ==
    CASE o = "PermissionDenied" -> "PermissionDenied"
      [] o = "SlaveBusy" -> "SlaveBusyException"
      [] o = "Timeout" -> "TimeoutError"
      [] o = "ConnectionError" -> "ModbusConnectionException"
      [] OTHER -> "ReadException"

\* execute of the challenge and of the login request that ends login early
LoginErrors == {"ExceptionResponse", "Timeout", "ConnectionError"}

\* the exception login lets through for such an outcome
LoginRaises(o) ==
    CASE o = "ExceptionResponse" -> "AttributeError"
      [] o = "Timeout" -> "TimeoutError"
      [] OTHER -> "ModbusConnectionException"

\* LoginResult asking for the right mac as well
LoginResultStrict(status, mac_ok) ==
    IF status = 0 /\ mac_ok THEN "True" ELSE "False"

\* what login returns for a login response: content[1] decides
LoginResult(status, mac_ok) == IF status = 0 THEN "True" ELSE "False"

\* the login responses: accepted or refused, the echoed mac right or altered
LoginResponses == {0, 1} \X BOOLEAN

\* write_register of the heartbeat
HeartbeatOutcomes == {"Valid", "ExceptionResponse", "Timeout", "ConnectionError"}

(***************************************************************************)
(* CRC-16 of the file, as pymodbus.utilities computes it                   *)
(***************************************************************************)
\* the exclusive or of two numbers, bit by bit
XorBits[a \in Nat, b \in Nat] ==
    IF a = 0 THEN b
    ELSE IF b = 0 THEN a
    ELSE ((a + b) % 2) + 2 * XorBits[a \div 2, b \div 2]

Xor(a, b) == XorBits[a, b]

\* one entry of the CRC table: k rounds left for this byte
CrcRounds[byte \in Nat, crc \in Nat, k \in Nat] ==
    IF k = 0
    THEN crc
    ELSE IF Xor(byte, crc) % 2 = 1
         THEN CrcRounds[byte \div 2, Xor(crc \div 2, 40961), k - 1]
         ELSE CrcRounds[byte \div 2, crc \div 2, k - 1]

CrcTableRounds(byte, crc, k) == CrcRounds[byte, crc, k]

\* the CRC table, an entry for each byte
CrcTable == [byte \in 0..255 |-> CrcTableRounds(byte, 0, 8)]

\* swap upper and lower byte of a 16 bit value
SwapBytes(x) == ((x * 256) % 65536) + ((x \div 256) % 256)

\* the running crc after the bytes of data from position i on
RECURSIVE CrcFrom(_, _, _)
CrcFrom(data, i, crc) ==
    IF i > Len(data)
    THEN crc
    ELSE CrcFrom(data, i + 1,
                 Xor((crc \div 256) % 256, CrcTable[Xor(crc, data[i]) % 256]))

computeCRC(data) == SwapBytes(CrcFrom(data, 1, 65535))

\* checkCRC comparing the low bytes alone
checkCRCLowByte(data, check) == computeCRC(data) % 256 = check % 256

checkCRC(data, check) == computeCRC(data) = check

\* the locals of _do_read_file
NoFile == [stage |-> "none", file_length |-> 0, data_frame_length |-> 0,
           next_frame_no |-> 0, file_data |-> <<>>, file_crc |-> 0]

(***************************************************************************)
(* The state after construction: create has connected the client, nobody   *)
(* holds the gate, no task is in a call, the bridges have no heartbeat     *)
(***************************************************************************)
\* no call is under way on the session s and the bridges bs, over an
\* inverter that holds mem, the client connected or not
InitWith(mem, up, s, bs) ==
    /\ connected = up
    /\ lock = NoTask
    /\ waiters = <<>>
    /\ inflight = {}
    /\ pc = [t \in AllTasks |-> "idle"]
    /\ op = [t \in AllTasks |-> "none"]
    /\ names = [t \in AllTasks |-> <<>>]
    /\ tries = [t \in AllTasks |-> 0]
    /\ result = [t \in AllTasks |-> NoResult]
    /\ file = [t \in AllTasks |-> NoFile]
    /\ attempts = [t \in AllTasks |-> 0]
    /\ backoffs = [t \in AllTasks |-> 0]
    /\ cooldowns = [t \in AllTasks |-> 0]
    /\ acquired = [t \in AllTasks |-> FALSE]
    /\ lastOutcome = [t \in AllTasks |-> "none"]
    /\ lastRead = "none"
    /\ memory = mem
    /\ request = [t \in AllTasks |-> NoRequest]
    /\ response = [t \in AllTasks |-> <<>>]
    /\ values = [t \in AllTasks |-> <<>>]
    /\ login_response = [t \in AllTasks |-> NoLoginResponse]
    /\ via = [t \in AllTasks |-> NoBridge]
    /\ enable_heartbeat = [b \in Bridges |-> FALSE]
    /\ heartbeat_task = [b \in Bridges |-> "None"]
    /\ logged_in = [b \in Bridges |-> FALSE]
    /\ stopped = [b \in Bridges |-> FALSE]
    /\ client_stopped = FALSE
    /\ session = s
    /\ bridge = bs
    /\ frame = [t \in AllTasks |-> NoFrame]

\* a connected session of slave 0 with its primary bridge and an extra bridge
\* of slave 1, over an inverter that holds mem
InitOver(mem) ==
    InitWith(mem, TRUE, NewSession(0, "created"),
             [b \in Bridges |->
                 IF b = "primary" THEN NewBridge(None, TRUE) ELSE NewBridge(1, TRUE)])

Init == InitOver([a \in Addresses |-> a])

\* the same over every memory
InitAnyMemory == \E mem \in Memories : InitOver(mem)

(***************************************************************************)
(* Pieces of steps.  Each sets pc, result, lock and what it names.         *)
(***************************************************************************)
\* Done that leaves the gate with the task
DoneHoldingGate(t, r) ==
    /\ pc' = [pc EXCEPT ![t] = "done"]
    /\ result' = [result EXCEPT ![t] = r]
    /\ UNCHANGED <<lock, request, surroundings>>

\* the call of task t ends with result r for its caller; leaving "async with"
\* releases the gate
Done(t, r) ==
    /\ pc' = [pc EXCEPT ![t] = "done"]
    /\ result' = [result EXCEPT ![t] = r]
    /\ lock' = IF lock = t THEN NoTask ELSE lock
    /\ UNCHANGED <<request, surroundings>>

\* every bridge taken for the owner of the client
PrimaryAlways(b) == TRUE

\* self._primary of a bridge
Primary(b) == b = "primary"

\* the exceptions of huawei_solar.exceptions, all of them HuaweiSolarException
HuaweiSolarExceptions ==
    {"HuaweiSolarException", "ConnectionException", "ReadException",
     "WriteException", "PermissionDenied", "SlaveBusyException",
     "InvalidCredentials"}

\* TaskDone that takes every task for done
TaskDoneAlways(s) == TRUE

\* task.done() of a heartbeat task
TaskDone(s) == s \in {"done"}

\* start_heartbeat of bridge b, with which the call of task t ends: it raises
\* while the task of the bridge is not done, else it enables the heartbeat and
\* creates the task
start_heartbeat(t, b) ==
    IF heartbeat_task[b] # "None" /\ ~TaskDone(heartbeat_task[b])
    THEN /\ pc' = [pc EXCEPT ![t] = "done"]
         /\ result' = [result EXCEPT ![t] =
                           Raised("HuaweiSolarException", "still running")]
         /\ UNCHANGED <<enable_heartbeat, heartbeat_task, stopped>>
    ELSE /\ pc' = [pc EXCEPT ![t] = "done", ![HeartbeatTask(b)] = "created"]
         /\ result' = [result EXCEPT ![t] = Returned("None"),
                                     ![HeartbeatTask(b)] = NoResult]
         /\ enable_heartbeat' = [enable_heartbeat EXCEPT ![b] = TRUE]
         /\ heartbeat_task' = [heartbeat_task EXCEPT ![b] = "pending"]
         /\ stopped' = [stopped EXCEPT ![b] = FALSE]

\* HuaweiSolarBridge.login of bridge b in task t after "await
\* self.client.login" ended with r
BridgeLoginReturns(t, b, r) ==
    /\ IF r = Returned("True")
       THEN /\ logged_in' = [logged_in EXCEPT ![b] = TRUE]
            /\ start_heartbeat(t, b)
       ELSE /\ pc' = [pc EXCEPT ![t] = "done"]
            /\ result' = [result EXCEPT ![t] =
                              IF r = Returned("False")
                              THEN Raised("InvalidCredentials", "")
                              ELSE r]
            /\ UNCHANGED <<enable_heartbeat, heartbeat_task, logged_in, stopped>>
    /\ lock' = IF lock = t THEN NoTask ELSE lock
    /\ UNCHANGED <<request, memory, client_stopped>>

\* the heartbeat task of bridge b ends, with r as the result of the task
HeartbeatTaskEnds(b, r) ==
    /\ pc' = [pc EXCEPT ![HeartbeatTask(b)] = "done"]
    /\ result' = [result EXCEPT ![HeartbeatTask(b)] = r]
    /\ heartbeat_task' = [heartbeat_task EXCEPT ![b] = "done"]

\* HeartbeatReturns that leaves the flag as it is when heartbeat returns
HeartbeatReturnsFlagKept(t, b, r) ==
    /\ IF r.status = "returned"
       THEN /\ pc' = [pc EXCEPT ![t] = "heartbeat_sleep"]
            /\ UNCHANGED <<result, heartbeat_task, enable_heartbeat>>
       ELSE IF r.what \in HuaweiSolarExceptions
            THEN /\ enable_heartbeat' = [enable_heartbeat EXCEPT ![b] = FALSE]
                 /\ HeartbeatTaskEnds(b, Returned("None"))
            ELSE /\ HeartbeatTaskEnds(b, r)
                 /\ UNCHANGED enable_heartbeat
    /\ lock' = IF lock = t THEN NoTask ELSE lock
    /\ UNCHANGED <<request, memory, logged_in, stopped, client_stopped>>

\* the loop of the heartbeat task t of bridge b after "await
\* self.client.heartbeat" ended with r: the flag takes what it returned and
\* the task sleeps; a HuaweiSolarException clears the flag and ends the loop;
\* any other exception ends the task as it is
HeartbeatReturns(t, b, r) ==
    /\ IF r.status = "returned"
       THEN /\ enable_heartbeat' = [enable_heartbeat EXCEPT ![b] = (r.what = "True")]
            /\ pc' = [pc EXCEPT ![t] = "heartbeat_sleep"]
            /\ UNCHANGED <<result, heartbeat_task>>
       ELSE IF r.what \in HuaweiSolarExceptions
            THEN /\ enable_heartbeat' = [enable_heartbeat EXCEPT ![b] = FALSE]
                 /\ HeartbeatTaskEnds(b, Returned("None"))
            ELSE /\ HeartbeatTaskEnds(b, r)
                 /\ UNCHANGED enable_heartbeat
    /\ lock' = IF lock = t THEN NoTask ELSE lock
    /\ UNCHANGED <<request, memory, logged_in, stopped, client_stopped>>

\* the method o of the session, called in task t from a method of bridge b or
\* from elsewhere, ends with r: the caller goes on with it
Deliver(t, b, o, r) ==
    CASE b # NoBridge /\ o = "login" -> BridgeLoginReturns(t, b, r)
      [] b # NoBridge /\ o = "heartbeat" -> HeartbeatReturns(t, b, r)
      [] OTHER -> Done(t, r)

\* task t stops with result r
Finish(t, r) == Deliver(t, via[t], op[t], r)

\* task t goes on to suspension point p
Suspend(t, p) ==
    /\ pc' = [pc EXCEPT ![t] = p]
    /\ UNCHANGED <<result, lock, request, surroundings>>

\* backoff_giveup that only logs: the decorator raises e itself
backoff_giveup_logs(e, n) == Raised(e, "")

\* what the caller gets when the decorator gives up after n tries on exception
\* e: the on_giveup handler backoff_giveup raises in place of e
backoff_giveup(e, n) == RaisedAfter("ReadException", "giveup", n)

\* exception e, raised with message m on try n out of max of a decorated
\* function, reaches the decorator
Decorated(t, e, m, n, max) ==
    LET d == BackoffDecision(e, n, max)
    IN  IF d = "backoff"
        THEN Suspend(t, "backoff")
        ELSE IF d = "giveup"
             THEN Finish(t, backoff_giveup(e, n))
             ELSE Finish(t, Raised(e, m))

\* Throttle without the sleep: the call returns at once
ThrottleSkipped(t) == Finish(t, Returned("response"))

\* the exchange brought its response: the cooldown sleep before the gate is
\* released
Throttle(t) == Suspend(t, "cooldown")

\* task t hands request rq to call k of the transport and awaits the answer
\* at p
Issue(t, k, p, rq) ==
    /\ inflight' = inflight \cup {<<t, k>>}
    /\ pc' = [pc EXCEPT ![t] = p]
    /\ request' = [request EXCEPT ![t] = rq]
    /\ UNCHANGED <<result, surroundings>>

\* one try of _do_read for the names ns by task t, which holds the gate, up
\* to its await
DoReadTry(t, ns) ==
    /\ tries' = [tries EXCEPT ![t] = @ + 1]
    /\ IF ~connected
       THEN /\ Decorated(t, "ConnectionException", "not connected",
                         tries[t] + 1, MaxTries)
            /\ UNCHANGED <<inflight, attempts, lastRead>>
       ELSE /\ Issue(t, "read_holding_registers", "read", ReadRequest(ns))
            /\ attempts' = [attempts EXCEPT ![t] = @ + 1]
            /\ lastRead' = "busy"
            /\ lock' = t

\* write_registers called by set of the one name of ns in task t, which
\* holds the gate, up to its await
WriteTry(t, ns) ==
    /\ IF ~connected
       THEN /\ Finish(t, Raised("ConnectionException", "not connected"))
            /\ UNCHANGED <<inflight, attempts>>
       ELSE /\ Issue(t, "write_registers", "write",
                     Request("write_registers", REGISTERS[ns[1]].register,
                             REGISTERS[ns[1]].length))
            /\ attempts' = [attempts EXCEPT ![t] = @ + 1]
            /\ lock' = t
    /\ UNCHANGED <<tries, lastRead>>

\* the request of _do_read_file with the locals f
FileRequest(f) ==
    CASE f.stage = "start" -> Request("StartUploadModbusRequest", 0, 0)
      [] f.stage = "data" -> Request("UploadModbusRequest", f.next_frame_no, 0)
      [] OTHER -> Request("CompleteUploadModbusRequest", 0, 0)

\* encode of a request: struct.pack(">BBBH", ..) of a Data request raises
\* struct.error for a frame number that does not fit two bytes
Encodes(rq) == rq.fn = "UploadModbusRequest" => rq.a < FrameNoLimit

\* try n of _perform_request of the request rq by task t, which holds the
\* gate, up to its await: execute builds the packet of the request and
\* sends it; an error of encode goes through the decorator to the caller
PerformRequestTry(t, n, rq) ==
    /\ tries' = [tries EXCEPT ![t] = n]
    /\ attempts' = [attempts EXCEPT ![t] = n]
    /\ IF Encodes(rq)
       THEN /\ Issue(t, "execute", "execute", rq)
            /\ lock' = t
       ELSE /\ inflight' = inflight \ {<<t, "execute">>}
            /\ Decorated(t, "struct.error", "frame_no", n, FileUploadMaxRetries)
    /\ UNCHANGED lastRead

\* what task t does in method o, called for the names ns, once it holds the
\* gate
Enter(t, o, ns) ==
    CASE o = "get_multiple" -> DoReadTry(t, ns)
      [] o = "set" -> WriteTry(t, ns)
      [] o = "get_file" ->
             PerformRequestTry(t, 1, Request("StartUploadModbusRequest", 0, 0))

\* "async with self._communication_lock" reached by task t in method o:
\* the gate is taken at once when it is free and nobody waits for it
AcquireOrWait(t, o, ns) ==
    IF lock = NoTask /\ waiters = <<>>
    THEN /\ acquired' = [acquired EXCEPT ![t] = TRUE]
         /\ Enter(t, o, ns)
         /\ UNCHANGED waiters
    ELSE /\ Suspend(t, "lock")
         /\ waiters' = Append(waiters, t)
         /\ UNCHANGED <<inflight, tries, attempts, acquired, lastRead>>

(***************************************************************************)
(* The steps of the tasks: from one suspension point to the next           *)
(***************************************************************************)
\* a task calls get_multiple(ns)
GetMultiple(t, ns) ==
    /\ pc[t] = "idle"
    /\ op' = [op EXCEPT ![t] = "get_multiple"]
    /\ names' = [names EXCEPT ![t] = ns]
    /\ IF CheckNames(ns) # ""
       THEN /\ Finish(t, Raised("ValueError", CheckNames(ns)))
            /\ UNCHANGED <<waiters, inflight, tries, attempts, acquired, lastRead>>
       ELSE AcquireOrWait(t, "get_multiple", ns)
    /\ UNCHANGED <<connected, file, backoffs, cooldowns, lastOutcome>>
    /\ UNCHANGED <<heard, probing>>

\* a task calls set(name, value), the value encoding to nregs registers
Set(t, name, nregs) ==
    /\ pc[t] = "idle"
    /\ op' = [op EXCEPT ![t] = "set"]
    /\ names' = [names EXCEPT ![t] = <<name>>]
    /\ IF name \notin KnownNames
       THEN /\ Finish(t, Raised("ValueError", "Invalid Register Name"))
            /\ UNCHANGED <<waiters, inflight, tries, attempts, acquired, lastRead>>
       ELSE IF ~REGISTERS[name].writeable
            THEN /\ Finish(t, Raised("WriteException", "Register is not writable"))
                 /\ UNCHANGED <<waiters, inflight, tries, attempts, acquired, lastRead>>
            ELSE IF nregs # REGISTERS[name].length
                 THEN /\ Finish(t, Raised("WriteException",
                                          "Wrong number of registers to write"))
                      /\ UNCHANGED <<waiters, inflight, tries, attempts, acquired,
                                     lastRead>>
                 ELSE AcquireOrWait(t, "set", <<name>>)
    /\ UNCHANGED <<connected, file, backoffs, cooldowns, lastOutcome>>
    /\ UNCHANGED <<heard, probing>>

\* a task calls get_file
GetFile(t) ==
    /\ pc[t] = "idle"
    /\ op' = [op EXCEPT ![t] = "get_file"]
    /\ file' = [file EXCEPT ![t] = [NoFile EXCEPT !.stage = "start"]]
    /\ AcquireOrWait(t, "get_file", <<>>)
    /\ UNCHANGED <<connected, names, backoffs, cooldowns, lastOutcome>>
    /\ UNCHANGED <<heard, probing>>

\* the gate is handed to the first waiter, which runs on
LockGranted(t) ==
    /\ pc[t] = "lock"
    /\ lock = NoTask
    /\ waiters # <<>>
    /\ Head(waiters) = t
    /\ waiters' = Tail(waiters)
    /\ acquired' = [acquired EXCEPT ![t] = TRUE]
    /\ Enter(t, op[t], names[t])
    /\ UNCHANGED <<connected, op, names, file, backoffs, cooldowns, lastOutcome>>
    /\ UNCHANGED <<heard, probing>>

\* the transport answers read_holding_registers of task t with outcome o
ReadResponse(t, o) ==
    /\ pc[t] = "read"
    /\ <<t, "read_holding_registers">> \in inflight
    /\ inflight' = inflight \ {<<t, "read_holding_registers">>}
    /\ lastOutcome' = [lastOutcome EXCEPT ![t] = o]
    /\ lastRead' = "responded"
    /\ IF DoReadRaises(o) = ""
       THEN /\ Throttle(t)
            /\ response' = [response EXCEPT ![t] = ReadRegisters(memory, request[t])]
       ELSE /\ Decorated(t, DoReadRaises(o), o, tries[t], MaxTries)
            /\ UNCHANGED response
    /\ UNCHANGED <<connected, waiters, op, names, tries, file, attempts, backoffs,
                   cooldowns, acquired>>
    /\ UNCHANGED <<values, login_response, via>>
    /\ UNCHANGED probing

\* the transport answers write_registers of task t with outcome o
WriteResponse(t, o) ==
    /\ pc[t] = "write"
    /\ <<t, "write_registers">> \in inflight
    /\ inflight' = inflight \ {<<t, "write_registers">>}
    /\ lastOutcome' = [lastOutcome EXCEPT ![t] = o]
    /\ IF WriteRaises(o) = ""
       THEN Throttle(t)
       ELSE Finish(t, Raised(WriteRaises(o), o))
    /\ UNCHANGED <<connected, waiters, op, names, tries, file, attempts, backoffs,
                   cooldowns, acquired, lastRead>>
    /\ UNCHANGED <<heard, probing>>

\* _do_read_file of task t goes on with the locals f: the next Data request
\* while frames are missing, the Complete request after that
NextFileRequest(t, f) ==
    LET next == [f EXCEPT !.stage =
                    IF f.next_frame_no * f.data_frame_length < f.file_length
                    THEN "data" ELSE "complete"]
    IN  /\ file' = [file EXCEPT ![t] = next]
        /\ backoffs' = [backoffs EXCEPT ![t] = 0]
        /\ PerformRequestTry(t, 1, FileRequest(next))

\* the transport answers the Start request of task t
StartUploadResponse(t, file_length, data_frame_length) ==
    /\ pc[t] = "execute"
    /\ op[t] = "get_file"
    /\ file[t].stage = "start"
    /\ lastOutcome' = [lastOutcome EXCEPT ![t] = "Valid"]
    /\ NextFileRequest(t, [file[t] EXCEPT !.file_length = file_length,
                                          !.data_frame_length = data_frame_length])
    /\ UNCHANGED <<connected, waiters, op, names, cooldowns, acquired>>
    /\ UNCHANGED <<heard, probing>>

\* the transport answers a Data request of task t with frame_data
UploadFrame(t, frame_data) ==
    /\ pc[t] = "execute"
    /\ op[t] = "get_file"
    /\ file[t].stage = "data"
    /\ lastOutcome' = [lastOutcome EXCEPT ![t] = "Valid"]
    /\ NextFileRequest(t, [file[t] EXCEPT !.file_data = @ \o frame_data,
                                          !.next_frame_no = @ + 1])
    /\ UNCHANGED <<connected, waiters, op, names, cooldowns, acquired>>
    /\ UNCHANGED <<heard, probing>>

\* the same for the frames up to MaxFrames
UploadResponse(t, frame_data) ==
    /\ file[t].next_frame_no < MaxFrames
    /\ UploadFrame(t, frame_data)

\* the transport answers the Complete request of task t with file_crc
CompleteUploadResponse(t, file_crc) ==
    /\ pc[t] = "execute"
    /\ op[t] = "get_file"
    /\ file[t].stage = "complete"
    /\ inflight' = inflight \ {<<t, "execute">>}
    /\ lastOutcome' = [lastOutcome EXCEPT ![t] = "Valid"]
    /\ file' = [file EXCEPT ![t].file_crc = file_crc]
    /\ IF checkCRC(file[t].file_data, SwapBytes(file_crc))
       THEN Throttle(t)
       ELSE Finish(t, Raised("ReadException", "CRC"))
    /\ UNCHANGED <<connected, waiters, op, names, tries, attempts, backoffs,
                   cooldowns, acquired, lastRead>>
    /\ UNCHANGED <<heard, probing>>

\* a request of get_file in task t ends with outcome o instead of its content
FileError(t, o) ==
    /\ pc[t] = "execute"
    /\ op[t] = "get_file"
    /\ inflight' = inflight \ {<<t, "execute">>}
    /\ lastOutcome' = [lastOutcome EXCEPT ![t] = o]
    /\ Decorated(t, PerformRequestRaises(o), o, tries[t], FileUploadMaxRetries)
    /\ UNCHANGED <<connected, waiters, op, names, tries, file, attempts, backoffs,
                   cooldowns, acquired, lastRead>>
    /\ UNCHANGED <<heard, probing>>

\* the backoff sleep of task t is over: the decorator tries again
BackoffElapsed(t) ==
    /\ pc[t] = "backoff"
    /\ backoffs' = [backoffs EXCEPT ![t] = @ + 1]
    /\ CASE op[t] = "get_multiple" -> DoReadTry(t, names[t])
         [] op[t] = "get_file" -> PerformRequestTry(t, tries[t] + 1, request[t])
    /\ UNCHANGED <<connected, waiters, op, names, file, cooldowns, acquired,
                   lastOutcome>>
    /\ UNCHANGED <<heard, probing>>

\* what the call of task t returns after its cooldown
ReturnValue(t) ==
    CASE op[t] = "get_multiple" -> "response"
      [] op[t] = "set" -> IF lastOutcome[t] = "Valid" THEN "True" ELSE "False"
      [] op[t] = "get_file" -> "file_data"

\* the cooldown sleep of task t is over: the gate is released, the call returns
CooldownElapsed(t) ==
    /\ pc[t] = "cooldown"
    /\ cooldowns' = [cooldowns EXCEPT ![t] = @ + 1]
    /\ lastRead' = IF op[t] = "get_multiple" THEN "cooled" ELSE lastRead
    /\ values' = [values EXCEPT ![t] =
                     IF op[t] = "get_multiple"
                     THEN DecodeResponse(names[t], response[t])
                     ELSE @]
    /\ Finish(t, Returned(ReturnValue(t)))
    /\ UNCHANGED <<connected, waiters, inflight, op, names, tries, file, attempts,
                   backoffs, acquired, lastOutcome>>
    /\ UNCHANGED <<response, login_response, via>>
    /\ UNCHANGED probing

\* a task calls login, from a method of bridge b or from elsewhere: the
\* challenge request goes out at once, the gate is not asked for
LoginFrom(t, b) ==
    /\ pc[t] = "idle"
    /\ op' = [op EXCEPT ![t] = "login"]
    /\ via' = [via EXCEPT ![t] = b]
    /\ Issue(t, "execute", "challenge", Request("PrivateHuaweiModbusRequest", 36, 0))
    /\ attempts' = [attempts EXCEPT ![t] = @ + 1]
    /\ UNCHANGED <<connected, lock, waiters, names, tries, file, backoffs, cooldowns,
                   acquired, lastOutcome, lastRead>>
    /\ UNCHANGED <<response, values, login_response>>
    /\ UNCHANGED probing

\* a task calls login of the session
Login(t) == LoginFrom(t, NoBridge)

\* the inverter answers the challenge of task t; first_byte is content[0]
ChallengeResponse(t, first_byte) ==
    /\ pc[t] = "challenge"
    /\ inflight' = inflight \ {<<t, "execute">>}
    /\ lastOutcome' = [lastOutcome EXCEPT ![t] = "Valid"]
    /\ IF first_byte = 17
       THEN Suspend(t, "login_sleep")
       ELSE Finish(t, Raised("AssertionError", "challenge"))
    /\ UNCHANGED <<connected, waiters, op, names, tries, file, attempts, backoffs,
                   cooldowns, acquired, lastRead>>
    /\ UNCHANGED <<heard, probing>>

\* the sleep between challenge and login is over: the login request goes out
LoginSleepElapsed(t) ==
    /\ pc[t] = "login_sleep"
    /\ Issue(t, "execute", "login", Request("PrivateHuaweiModbusRequest", 37, 0))
    /\ attempts' = [attempts EXCEPT ![t] = @ + 1]
    /\ UNCHANGED <<connected, lock, waiters, op, names, tries, file, backoffs,
                   cooldowns, acquired, lastOutcome, lastRead>>
    /\ UNCHANGED <<heard, probing>>

\* the inverter answers the login of task t; status is content[1], mac_ok
\* tells whether the mac it echoes is the digest of the client challenge
LoginResponse(t, status, mac_ok) ==
    /\ pc[t] = "login"
    /\ inflight' = inflight \ {<<t, "execute">>}
    /\ lastOutcome' = [lastOutcome EXCEPT ![t] = "Valid"]
    /\ login_response' = [login_response EXCEPT ![t] =
                             [status |-> status, mac_ok |-> mac_ok,
                              logged |-> status = 0 /\ ~mac_ok]]
    /\ Finish(t, Returned(LoginResult(status, mac_ok)))
    /\ UNCHANGED <<connected, waiters, op, names, tries, file, attempts, backoffs,
                   cooldowns, acquired, lastRead>>
    /\ UNCHANGED <<response, values, via>>
    /\ UNCHANGED probing

\* a request of login in task t ends with outcome o instead of its content
LoginError(t, o) ==
    /\ pc[t] \in {"challenge", "login"}
    /\ inflight' = inflight \ {<<t, "execute">>}
    /\ lastOutcome' = [lastOutcome EXCEPT ![t] = o]
    /\ Finish(t, Raised(LoginRaises(o), o))
    /\ UNCHANGED <<connected, waiters, op, names, tries, file, attempts, backoffs,
                   cooldowns, acquired, lastRead>>
    /\ UNCHANGED <<heard, probing>>

\* a task calls heartbeat: the write goes out at once, the gate is not asked for
Heartbeat(t) ==
    /\ pc[t] = "idle"
    /\ op' = [op EXCEPT ![t] = "heartbeat"]
    /\ IF ~connected
       THEN /\ Finish(t, Returned("False"))
            /\ UNCHANGED <<inflight, attempts>>
       ELSE /\ Issue(t, "write_register", "heartbeat",
                     Request("write_register", HeartbeatRegister, 1))
            /\ attempts' = [attempts EXCEPT ![t] = @ + 1]
            /\ UNCHANGED lock
    /\ UNCHANGED <<connected, waiters, names, tries, file, backoffs, cooldowns,
                   acquired, lastOutcome, lastRead>>
    /\ UNCHANGED <<heard, probing>>

\* cancel() was called on the task and it has not run since
CancelRequested(t) ==
    \E b \in Bridges : t = HeartbeatTask(b) /\ heartbeat_task[b] = "cancelling"

\* the transport answers the heartbeat write of task t with outcome o
HeartbeatResponse(t, o) ==
    /\ pc[t] = "heartbeat"
    /\ ~CancelRequested(t)
    /\ inflight' = inflight \ {<<t, "write_register">>}
    /\ lastOutcome' = [lastOutcome EXCEPT ![t] = o]
    /\ CASE o = "Valid" -> Finish(t, Returned("True"))
         [] o = "ExceptionResponse" -> Finish(t, Returned("False"))
         [] o = "Timeout" -> Finish(t, Raised("TimeoutError", o))
         [] OTHER -> Finish(t, Raised("ModbusConnectionException", o))
    /\ UNCHANGED <<connected, waiters, op, names, tries, file, attempts, backoffs,
                   cooldowns, acquired, lastRead>>
    /\ UNCHANGED <<heard, probing>>

\* the places at which a task is suspended inside an exchange: at the gate,
\* at a call of the transport, at the sleep of a backoff or of the cooldown
ExchangePoints == {"lock", "read", "write", "execute", "cooldown", "backoff"}

\* the waiters of the gate with the cancelled one left in the queue
WaiterKept(ws, t) == ws

\* the waiters of the gate once acquire of task t has removed its own
WithoutWaiter(ws, t) == SelectSeq(ws, LAMBDA w : w # t)

\* task t, cancelled while suspended in get_multiple, set or get_file, runs
\* next: CancelledError is raised where it was suspended, the call it awaited
\* is given up, "async with" releases the gate when the task held it and
\* acquire leaves the queue when it waited
Cancelled(t) ==
    /\ pc[t] \in ExchangePoints
    /\ op[t] \in {"get_multiple", "set", "get_file"}
    /\ waiters' = WithoutWaiter(waiters, t)
    /\ inflight' = {k \in inflight : k[1] # t}
    /\ Done(t, Raised("CancelledError", ""))
    /\ UNCHANGED <<connected, op, names, tries, file, attempts, backoffs, cooldowns,
                   acquired, lastOutcome, lastRead>>
    /\ UNCHANGED <<heard, probing>>

\* the locals of the call of task t are gone with the call
CallOver(t) ==
    /\ op' = [op EXCEPT ![t] = "none"]
    /\ names' = [names EXCEPT ![t] = <<>>]
    /\ tries' = [tries EXCEPT ![t] = 0]
    /\ file' = [file EXCEPT ![t] = NoFile]
    /\ attempts' = [attempts EXCEPT ![t] = 0]
    /\ backoffs' = [backoffs EXCEPT ![t] = 0]
    /\ cooldowns' = [cooldowns EXCEPT ![t] = 0]
    /\ acquired' = [acquired EXCEPT ![t] = FALSE]
    /\ lastOutcome' = [lastOutcome EXCEPT ![t] = "none"]
    /\ request' = [request EXCEPT ![t] = NoRequest]
    /\ response' = [response EXCEPT ![t] = <<>>]
    /\ values' = [values EXCEPT ![t] = <<>>]
    /\ login_response' = [login_response EXCEPT ![t] = NoLoginResponse]

\* the caller of task t takes the result; the task is free for its next call
Return(t) ==
    /\ pc[t] = "done"
    /\ pc' = [pc EXCEPT ![t] = "idle"]
    /\ result' = [result EXCEPT ![t] = NoResult]
    /\ via' = [via EXCEPT ![t] = NoBridge]
    /\ CallOver(t)
    /\ UNCHANGED <<connected, lock, waiters, inflight, lastRead, surroundings>>
    /\ UNCHANGED probing

\* the connection to the inverter drops or comes back
ConnectionChange ==
    /\ ~client_stopped
    /\ connected' = ~connected
    /\ UNCHANGED <<lock, waiters, inflight, pc, op, names, tries, result, file,
                   attempts, backoffs, cooldowns, acquired, lastOutcome, lastRead,
                   request, surroundings>>
    /\ UNCHANGED <<heard, probing>>

(***************************************************************************)
(* HuaweiSolarBridge: login, the heartbeat task, stop                      *)
(***************************************************************************)
\* a task calls login of bridge b, which calls login of the session
BridgeLogin(t, b) == LoginFrom(t, b)

\* a task calls start_heartbeat of bridge b
StartHeartbeat(t, b) ==
    /\ pc[t] = "idle"
    /\ op' = [op EXCEPT ![t] = "start_heartbeat"]
    /\ via' = [via EXCEPT ![t] = b]
    /\ start_heartbeat(t, b)
    /\ UNCHANGED <<connected, lock, waiters, inflight, names, tries, file, attempts,
                   backoffs, cooldowns, acquired, lastOutcome, lastRead, memory,
                   request, logged_in, client_stopped>>
    /\ UNCHANGED <<response, values, login_response>>
    /\ UNCHANGED probing

\* Cancel that asks nothing of the task
CancelIgnored(s) == s

\* a task after cancel(): one that is not done gets CancelledError when it
\* runs next
Cancel(s) == IF s = "pending" THEN "cancelling" ELSE s

\* a task calls stop of bridge b
BridgeStop(t, b) ==
    /\ pc[t] = "idle"
    /\ op' = [op EXCEPT ![t] = "stop"]
    /\ via' = [via EXCEPT ![t] = b]
    /\ enable_heartbeat' = [enable_heartbeat EXCEPT ![b] = FALSE]
    /\ heartbeat_task' = [heartbeat_task EXCEPT ![b] =
                             IF @ = "None" THEN @ ELSE Cancel(@)]
    /\ IF Primary(b)
       THEN /\ client_stopped' = TRUE
            /\ connected' = FALSE
            /\ result' = [result EXCEPT ![t] = Returned("None")]
       ELSE /\ UNCHANGED <<client_stopped, connected>>
            /\ result' = [result EXCEPT ![t] = Returned("True")]
    /\ stopped' = [stopped EXCEPT ![b] = TRUE]
    /\ pc' = [pc EXCEPT ![t] = "done"]
    /\ UNCHANGED <<lock, waiters, inflight, names, tries, file, attempts, backoffs,
                   cooldowns, acquired, lastOutcome, lastRead, memory, request,
                   logged_in>>
    /\ UNCHANGED <<response, values, login_response>>
    /\ UNCHANGED probing

\* the heartbeat task of bridge b at the head of its loop: it ends when the
\* flag is down, else it calls heartbeat of the session, which returns False
\* at once when the client is not connected and else writes the register
HeartbeatTurn(b) ==
    IF ~enable_heartbeat[b]
    THEN /\ HeartbeatTaskEnds(b, Returned("None"))
         /\ UNCHANGED <<lock, inflight, attempts, request, memory, enable_heartbeat,
                        logged_in, stopped, client_stopped>>
    ELSE IF ~connected
         THEN /\ Deliver(HeartbeatTask(b), b, "heartbeat", Returned("False"))
              /\ UNCHANGED <<inflight, attempts>>
         ELSE /\ Issue(HeartbeatTask(b), "write_register", "heartbeat",
                       Request("write_register", HeartbeatRegister, 1))
              /\ attempts' = [attempts EXCEPT ![HeartbeatTask(b)] = 1]
              /\ UNCHANGED lock

\* the heartbeat task of bridge b runs for the first time
HeartbeatTaskRuns(b) ==
    /\ pc[HeartbeatTask(b)] = "created"
    /\ heartbeat_task[b] = "pending"
    /\ op' = [op EXCEPT ![HeartbeatTask(b)] = "heartbeat"]
    /\ via' = [via EXCEPT ![HeartbeatTask(b)] = b]
    /\ lastOutcome' = [lastOutcome EXCEPT ![HeartbeatTask(b)] = "none"]
    /\ HeartbeatTurn(b)
    /\ UNCHANGED <<connected, waiters, names, tries, file, backoffs, cooldowns,
                   acquired, lastRead>>
    /\ UNCHANGED <<response, values, login_response>>
    /\ UNCHANGED probing

\* the sleep of HEARTBEAT_INTERVAL of the heartbeat task of bridge b is over
HeartbeatSleepElapsed(b) ==
    /\ pc[HeartbeatTask(b)] = "heartbeat_sleep"
    /\ heartbeat_task[b] = "pending"
    /\ HeartbeatTurn(b)
    /\ UNCHANGED <<connected, waiters, op, names, tries, file, backoffs, cooldowns,
                   acquired, lastOutcome, lastRead>>
    /\ UNCHANGED <<heard, probing>>

\* the heartbeat task of bridge b, cancelled, runs next: CancelledError ends
\* it where it was suspended, the write it awaited is given up
HeartbeatCancelled(b) ==
    /\ heartbeat_task[b] = "cancelling"
    /\ inflight' = inflight \ {<<HeartbeatTask(b), "write_register">>}
    /\ HeartbeatTaskEnds(b, Raised("CancelledError", ""))
    /\ UNCHANGED <<connected, lock, waiters, op, names, tries, file, attempts,
                   backoffs, cooldowns, acquired, lastOutcome, lastRead, memory,
                   request, enable_heartbeat, logged_in, stopped, client_stopped>>
    /\ UNCHANGED <<heard, probing>>

(***************************************************************************)
(* create, the probing, and the reading and writing methods of a bridge.   *)
(* A method awaits one call of the session after the other: the frame of   *)
(* the task holds the call it makes next, named by what it reads.          *)
(***************************************************************************)
\* "slave or self.slave" of _read_registers, write_registers, login,
\* heartbeat and get_file: None and 0 give way to the slave of the session
Unit(slave, self_slave) == IF slave = None \/ slave = 0 THEN self_slave ELSE slave

\* the slave a task hands to the call of the session it makes: create reads
\* with the default None, login of a bridge passes no slave, every other
\* method of a bridge passes self.slave_id
SlaveArgument(t) ==
    IF via[t] = NoBridge \/ op[t] = "login" THEN None ELSE bridge[via[t]].slave_id

\* the unit of the request the call of task t hands to the transport
UnitOf(t) == Unit(SlaveArgument(t), session.slave)

\* the most strings _compute_pv_registers accepts
MaxPvStrings == 24

\* _compute_pv_registers: voltage and current of each string, of the two
\* strings the inverters of the model have at most
PvNames == <<"PV_01_VOLTAGE", "PV_01_CURRENT", "PV_02_VOLTAGE", "PV_02_CURRENT">>
pv_registers(pv_string_count) == SubSeq(PvNames, 1, 2 * pv_string_count)

\* the lists update reads, each by the first of its names
INVERTER_REGISTERS == <<"INPUT_POWER">>
OPTIMIZER_REGISTERS == <<"NB_ONLINE_OPTIMIZERS">>
POWER_METER_REGISTERS == <<"GRID_A_VOLTAGE">>
ENERGY_STORAGE_REGISTERS == <<"STORAGE_STATE_OF_CAPACITY">>

\* the names of the list seq
Range(seq) == {seq[i] : i \in 1..Len(seq)}

\* the names the call of step st of a method of bridge b reads
StepNames(st, b) ==
    CASE st = "INVERTER_REGISTERS" -> INVERTER_REGISTERS
      [] st = "pv_registers" -> pv_registers(bridge[b].pv_string_count)
      [] st = "OPTIMIZER_REGISTERS" -> OPTIMIZER_REGISTERS
      [] st = "POWER_METER_REGISTERS" -> POWER_METER_REGISTERS
      [] st = "ENERGY_STORAGE_REGISTERS" -> ENERGY_STORAGE_REGISTERS
      [] st = "get_info" -> <<"MODEL_NAME", "SERIAL_NUMBER">>
      [] OTHER -> <<st>>

\* the steps at which a frame has no call to make
NoCall == {"none", "connect", "end"}

\* the test of update before the energy storage registers: "is not None" of
\* both battery slots
StorageRead(br) == br.battery_1_type # None \/ br.battery_2_type # None

\* the step of update of a bridge with the fields br behind step st
UpdateBehind(st, br) ==
    LET steps == <<"INVERTER_REGISTERS", "pv_registers">>
                    \o (IF br.has_optimizers # 0
                        THEN <<"OPTIMIZER_REGISTERS">> ELSE <<>>)
                    \o (IF br.power_meter_type # None
                        THEN <<"POWER_METER_REGISTERS">> ELSE <<>>)
                    \o (IF StorageRead(br)
                        THEN <<"ENERGY_STORAGE_REGISTERS">> ELSE <<>>)
                    \o <<"end">>
        at == CHOOSE i \in 1..Len(steps) : steps[i] = st
    IN  steps[at + 1]

\* "IllegalAddress" in str(rerr): the message of the ReadException of
\* _do_read carries the response, the one of the other ReadExceptions not
MentionsIllegalAddress(r) == r.msg = "IllegalAddress"

\* whether the handler of the battery read of _initialize raises: "raise
\* rerr" stands behind the if and its else, both ways reach it
BatteryReadFatal(r) == TRUE

\* the handler of create that stops no client
StopsClientNever(client_made) == FALSE

\* the handler of create and create_rtu: "if client is not None:
\* client.stop()"
StopsClient(client_made) == client_made

\* a task calls HuaweiSolarBridge.create (method "create") or
\* AsyncHuaweiSolar.create_rtu (method "create_rtu") for slave: the
\* transport is being set up
Create(t, method, slave) ==
    /\ pc[t] = "idle"
    /\ session.state = "none"
    /\ session' = NewSession(slave, "connecting")
    /\ frame' = [frame EXCEPT ![t] = [method |-> method, step |-> "connect",
                                      keys |-> {}]]
    /\ pc' = [pc EXCEPT ![t] = "connect"]
    /\ UNCHANGED <<connected, lock, waiters, inflight, op, names, tries, result,
                   file, attempts, backoffs, cooldowns, acquired, lastOutcome,
                   lastRead, request, surroundings, heard, bridge>>

\* the first read of _initialize
FirstProbe(s) ==
    IF s.slave = 0 THEN "SMARTLOGGER_FIRST_SLAVE_POWER" ELSE "TIME_ZONE"

\* the transport of create is there, connected or not yet, and the sleep
\* behind it is over; or setting it up raised: init_tcp_client before there
\* is a client, connect of the serial client with the client made
TransportUp(t, o) ==
    /\ pc[t] = "connect"
    /\ IF o = "raises"
       THEN /\ session' = [session EXCEPT !.state = "failed"]
            /\ frame' = [frame EXCEPT ![t].step = "end"]
            /\ pc' = [pc EXCEPT ![t] = "done"]
            /\ result' = [result EXCEPT ![t] = Raised("Exception", "connect")]
            /\ client_stopped' = StopsClient(frame[t].method = "create_rtu")
            /\ UNCHANGED connected
       ELSE /\ session' = [session EXCEPT !.state = "probing"]
            /\ frame' = [frame EXCEPT ![t].step = FirstProbe(session)]
            /\ pc' = [pc EXCEPT ![t] = "idle"]
            /\ connected' = (o = "connected")
            /\ UNCHANGED <<result, client_stopped>>
    /\ UNCHANGED <<lock, waiters, inflight, op, names, tries, file, attempts,
                   backoffs, cooldowns, acquired, lastOutcome, lastRead, request,
                   memory, enable_heartbeat, heartbeat_task, logged_in, stopped,
                   heard, bridge>>

\* a method of bridge b begins in task t with the call of step st
Begin(t, b, method, st) ==
    /\ pc[t] = "idle"
    /\ frame[t].step \in {"none", "end"}
    /\ session.state = "created"
    /\ frame' = [frame EXCEPT ![t] = [method |-> method, step |-> st, keys |-> {}]]
    /\ via' = [via EXCEPT ![t] = b]
    /\ UNCHANGED <<connected, lock, waiters, inflight, pc, op, names, tries, result,
                   file, attempts, backoffs, cooldowns, acquired, lastOutcome,
                   lastRead, request, surroundings, response, values,
                   login_response, session>>

\* a task calls create_extra_slave(client, slave_id)
CreateExtraSlave(t, slave_id) ==
    /\ ~bridge["extra"].made
    /\ session.slave # slave_id
    /\ Begin(t, "extra", "create_extra_slave", "NB_PV_STRINGS")
    /\ bridge' = [bridge EXCEPT !["extra"] = NewBridge(slave_id, FALSE)]

\* a task calls update, get_info or set of bridge b
BridgeCall(t, b, method) ==
    /\ bridge[b].made
    /\ Begin(t, b, method,
             IF method = "update" THEN "INVERTER_REGISTERS" ELSE method)
    /\ UNCHANGED bridge

\* the method task t is in makes its next call of the session
InnerCall(t) ==
    /\ frame[t].step \notin NoCall
    /\ IF frame[t].step = "set"
       THEN Set(t, "TIME_ZONE", 1)
       ELSE GetMultiple(t, StepNames(frame[t].step, via[t]))

\* what a method does with what its call r brought, v the decoded values:
\* the session and the bridge b as it leaves them, the step it goes to,
\* and what it raises when it ends by an exception
Goes(s, br, st) == [session |-> s, bridge |-> br, step |-> st, raises |-> FALSE]
Fails(s, br) == [session |-> s, bridge |-> br, step |-> "end", raises |-> TRUE]

\* the reads of _initialize
Initialized(s, br, st, r, v) ==
    CASE st = "SMARTLOGGER_FIRST_SLAVE_POWER" ->
            IF r.status = "returned"
            THEN Goes([s EXCEPT !.detected_smart_logger = (v[1] >= 0)], br,
                      IF v[1] >= 0 THEN "SMARTLOGGER_TIME_ZONE" ELSE "TIME_ZONE")
            ELSE IF r.what = "ReadException"
                 THEN Goes(s, br, "TIME_ZONE")
                 ELSE Fails(s, br)
      [] st = "SMARTLOGGER_TIME_ZONE" ->
            IF r.status = "returned"
            THEN Goes([s EXCEPT !.time_zone = v[1]], br, "initialized")
            ELSE Fails(s, br)
      [] st = "TIME_ZONE" ->
            IF r.status = "returned"
            THEN Goes([s EXCEPT !.time_zone = v[1]], br,
                      "STORAGE_UNIT_1_PRODUCT_MODEL")
            ELSE Fails(s, br)
      [] st = "STORAGE_UNIT_1_PRODUCT_MODEL" ->
            IF r.status = "returned"
            THEN Goes([s EXCEPT !.battery_type = v[1]], br, "initialized")
            ELSE IF r.what = "ReadException"
                 THEN LET s2 == IF MentionsIllegalAddress(r)
                                THEN [s EXCEPT !.battery_type = None]
                                ELSE s
                      IN  IF BatteryReadFatal(r)
                          THEN Fails(s2, br)
                          ELSE Goes(s2, br, "initialized")
                 ELSE Fails(s, br)

\* the reads of __populate_fields: a ReadException of any but the first
\* leaves the field as it is
Populated(s, br, st, r, v) ==
    LET skipped == r.status = "raised" /\ r.what = "ReadException"
        fatal == r.status = "raised" /\ r.what # "ReadException"
    IN  CASE st = "NB_PV_STRINGS" ->
                IF r.status = "returned" /\ v[1] >= 1 /\ v[1] <= MaxPvStrings
                THEN Goes(s, [br EXCEPT !.pv_string_count = v[1]], "NB_OPTIMIZERS")
                ELSE Fails(s, IF r.status = "returned"
                              THEN [br EXCEPT !.pv_string_count = v[1]]
                              ELSE br)
          [] st = "NB_OPTIMIZERS" ->
                IF fatal THEN Fails(s, br)
                ELSE Goes(s, IF skipped THEN br ELSE [br EXCEPT !.has_optimizers = v[1]],
                          "METER_STATUS")
          [] st = "METER_STATUS" ->
                IF fatal THEN Fails(s, br)
                ELSE Goes(s, br, IF ~skipped /\ v[1] = MeterStatusNORMAL
                                 THEN "METER_TYPE"
                                 ELSE "STORAGE_UNIT_1_PRODUCT_MODEL")
          [] st = "METER_TYPE" ->
                IF fatal THEN Fails(s, br)
                ELSE Goes(s, IF skipped THEN br
                             ELSE [br EXCEPT !.power_meter_type = v[1]],
                          "STORAGE_UNIT_1_PRODUCT_MODEL")
          [] st = "STORAGE_UNIT_1_PRODUCT_MODEL" ->
                IF fatal THEN Fails(s, br)
                ELSE Goes(s, IF skipped THEN br
                             ELSE [br EXCEPT !.battery_1_type = v[1]],
                          "STORAGE_UNIT_2_PRODUCT_MODEL")
          [] st = "STORAGE_UNIT_2_PRODUCT_MODEL" ->
                IF fatal THEN Fails(s, br)
                ELSE Goes(s, [(IF skipped THEN br
                               ELSE [br EXCEPT !.battery_2_type = v[1]])
                                 EXCEPT !.made = TRUE],
                          "end")

\* the call of the session task t awaited in a method has ended: the method
\* takes what it brought and goes to its next call, or ends
FrameContinues(t) ==
    /\ pc[t] = "done"
    /\ frame[t].step \notin NoCall
    /\ LET f == frame[t]
           b == via[t]
           r == result[t]
           v == values[t]
           probes == b = NoBridge
           br == IF probes THEN bridge["primary"] ELSE bridge[b]
           after ==
               CASE probes -> Initialized(session, br, f.step, r, v)
                 [] f.method \in {"create", "create_extra_slave"} ->
                        Populated(session, br, f.step, r, v)
                 [] f.method = "update" ->
                        IF r.status = "returned"
                        THEN Goes(session, br, UpdateBehind(f.step, br))
                        ELSE Fails(session, br)
                 [] OTHER ->
                        IF r.status = "returned"
                        THEN Goes(session, br, "end")
                        ELSE Fails(session, br)
           \* _initialize has returned: create_rtu returns the session,
           \* HuaweiSolarBridge.create makes the bridge and populates it
           populates == after.step = "initialized" /\ f.method = "create"
           step == IF after.step = "initialized"
                   THEN IF populates THEN "NB_PV_STRINGS" ELSE "end"
                   ELSE after.step
           stops == probes /\ after.raises /\ StopsClient(TRUE)
       IN  /\ session' =
                  [after.session EXCEPT !.state =
                      IF probes
                      THEN IF after.raises THEN "failed"
                           ELSE IF after.step = "initialized" THEN "created" ELSE @
                      ELSE @]
           /\ bridge' =
                  IF probes
                  THEN IF populates
                       THEN [bridge EXCEPT !["primary"] = NewBridge(None, FALSE)]
                       ELSE bridge
                  ELSE [bridge EXCEPT ![b] = after.bridge]
           /\ frame' = [frame EXCEPT ![t] =
                            [f EXCEPT !.step = step,
                                      !.keys = IF r.status = "returned"
                                                  /\ f.method = "update"
                                               THEN @ \cup Range(names[t])
                                               ELSE @]]
           /\ via' = [via EXCEPT ![t] = IF populates THEN "primary" ELSE b]
           /\ pc' = [pc EXCEPT ![t] = IF step = "end" THEN "done" ELSE "idle"]
           /\ result' = [result EXCEPT ![t] =
                             IF step # "end" THEN NoResult
                             ELSE IF after.raises
                                  THEN IF r.status = "raised" THEN r
                                       ELSE Raised("AssertionError", "")
                                  ELSE IF f.method \in {"get_info", "set"} THEN r
                                       ELSE Returned(f.method)]
           /\ client_stopped' = (client_stopped \/ stops)
           /\ connected' = (connected /\ ~stops)
    /\ CallOver(t)
    /\ UNCHANGED <<lock, waiters, inflight, lastRead, memory, enable_heartbeat,
                   heartbeat_task, logged_in, stopped>>

(***************************************************************************)
(* The tasks of one event loop on one session                              *)
(***************************************************************************)
\* the calls and answers of the concurrent specification
CallNames == {<<"A">>, <<"C", "D">>, <<"B", "A">>}
SetNames == {"C", "A"}
StartResponses == {<<0, 1>>, <<1, 1>>}
FrameData == {<<1>>}
\* the file_crc of the Complete response: the one of the data, or another
FileCrcs(data) == {SwapBytes(computeCRC(data)), 0}

Next ==
    \/ \E t \in Tasks, ns \in CallNames : GetMultiple(t, ns)
    \/ \E t \in Tasks, name \in SetNames : Set(t, name, 1)
    \/ \E t \in Tasks : GetFile(t)
    \/ \E t \in Tasks : Login(t)
    \/ \E t \in Tasks : Heartbeat(t)
    \/ \E t \in Tasks : LockGranted(t)
    \/ \E t \in Tasks, o \in ReadOutcomes : ReadResponse(t, o)
    \/ \E t \in Tasks, o \in WriteOutcomes : WriteResponse(t, o)
    \/ \E t \in Tasks, r \in StartResponses : StartUploadResponse(t, r[1], r[2])
    \/ \E t \in Tasks, d \in FrameData : UploadResponse(t, d)
    \/ \E t \in Tasks : \E c \in FileCrcs(file[t].file_data) :
          CompleteUploadResponse(t, c)
    \/ \E t \in Tasks, o \in FileErrors : FileError(t, o)
    \/ \E t \in Tasks : BackoffElapsed(t)
    \/ \E t \in Tasks : CooldownElapsed(t)
    \/ \E t \in Tasks, b \in {17, 0} : ChallengeResponse(t, b)
    \/ \E t \in Tasks : LoginSleepElapsed(t)
    \/ \E t \in Tasks, r \in LoginResponses : LoginResponse(t, r[1], r[2])
    \/ \E t \in Tasks, o \in LoginErrors : LoginError(t, o)
    \/ \E t \in Tasks, o \in HeartbeatOutcomes : HeartbeatResponse(t, o)
    \/ \E t \in Tasks : Return(t)
    \/ ConnectionChange

Spec == Init /\ [][Next]_vars

(***************************************************************************)
(* One task reading: every list of names, every script of outcomes         *)
(***************************************************************************)
NextGet ==
    \/ \E ns \in NameLists(MaxNames) : GetMultiple(1, ns)
    \/ \E o \in ReadOutcomes : ReadResponse(1, o)
    \/ BackoffElapsed(1)
    \/ CooldownElapsed(1)
    \/ Return(1)
    \/ ConnectionChange

SpecGet == InitAnyMemory /\ [][NextGet]_vars

(***************************************************************************)
(* One task reading a file: every start response, frames of every length,  *)
(* every script of errors, the crc of the file or of a file one bit away   *)
(***************************************************************************)
\* file_length and data_frame_length of the start response
StartResponsesAll == (0..MaxFileLength) \X {0, 1, 2}
\* frame_data of a Data response: empty, one byte, two bytes
FrameDataAll == {<<>>, <<1>>, <<254>>, <<1, 254>>}

\* data with one bit of one byte flipped
OneBitFlips(data) ==
    {[data EXCEPT ![i] = Xor(@, bit)] :
        i \in 1..Len(data), bit \in {1, 2, 4, 8, 16, 32, 64, 128}}

\* the file_crc of the Complete response: of the data as it arrived, of the
\* data with one bit flipped, the first with a bit of its own flipped, or 0
FileCrcsAll(data) ==
    {SwapBytes(computeCRC(d)) : d \in {data} \cup OneBitFlips(data)}
        \cup {Xor(SwapBytes(computeCRC(data)), 1), 0}

NextFile ==
    \/ GetFile(1)
    \/ \E r \in StartResponsesAll : StartUploadResponse(1, r[1], r[2])
    \/ \E d \in FrameDataAll : UploadResponse(1, d)
    \/ /\ file[1].stage = "complete"
       /\ \E c \in FileCrcsAll(file[1].file_data) : CompleteUploadResponse(1, c)
    \/ \E o \in FileErrors : FileError(1, o)
    \/ BackoffElapsed(1)
    \/ CooldownElapsed(1)
    \/ Return(1)

SpecFile == Init /\ [][NextFile]_vars

(***************************************************************************)
(* One task reading a file from an inverter that answers every request,    *)
(* a Data request with a frame of the length it announced                  *)
(***************************************************************************)
\* the frame of an inverter that announced the lengths in f
AnnouncedFrame(f) == [i \in 1..f.data_frame_length |-> 1]

\* the inverter answers the request in flight, a sleep is over
FileAnswered ==
    \/ \E r \in StartResponsesAll : StartUploadResponse(1, r[1], r[2])
    \/ UploadFrame(1, AnnouncedFrame(file[1]))
    \/ /\ file[1].stage = "complete"
       /\ \E c \in FileCrcs(file[1].file_data) : CompleteUploadResponse(1, c)
    \/ CooldownElapsed(1)

NextFileAnswered ==
    \/ GetFile(1)
    \/ FileAnswered
    \/ Return(1)

SpecFileAnswered == Init /\ [][NextFileAnswered]_vars /\ WF_vars(FileAnswered)

(***************************************************************************)
(* The tasks of one event loop on one session, any of them cancelled while *)
(* it is suspended; the transport answers every call, every sleep ends     *)
(***************************************************************************)
\* the answers of the transport: the one that ends the exchange well and the
\* one that sends it to a backoff or ends it by an exception
CancelReadOutcomes == {"Valid", "Timeout"}
CancelWriteOutcomes == {"Valid", "SlaveBusy"}
CancelFileErrors == {"SlaveBusy"}

\* an answer or a timer lets task t run on
Resumes(t) ==
    \/ LockGranted(t)
    \/ \E o \in CancelReadOutcomes : ReadResponse(t, o)
    \/ \E o \in CancelWriteOutcomes : WriteResponse(t, o)
    \/ StartUploadResponse(t, 1, 1)
    \/ UploadResponse(t, <<1>>)
    \/ CompleteUploadResponse(t, SwapBytes(computeCRC(file[t].file_data)))
    \/ \E o \in CancelFileErrors : FileError(t, o)
    \/ BackoffElapsed(t)
    \/ CooldownElapsed(t)

NextCancel ==
    \/ \E t \in Tasks : GetMultiple(t, <<"A">>)
    \/ \E t \in Tasks : Set(t, "C", 1)
    \/ \E t \in Tasks : GetFile(t)
    \/ \E t \in Tasks : Resumes(t)
    \/ \E t \in Tasks : Cancelled(t)
    \/ \E t \in Tasks : Return(t)

SpecCancel ==
    Init /\ [][NextCancel]_vars /\ \A t \in Tasks : WF_vars(Resumes(t))

(***************************************************************************)
(* One task that creates the session and its bridges and calls update,     *)
(* get_info and set of them, over inverters with and without batteries,    *)
(* optimizers and a power meter                                            *)
(***************************************************************************)
\* the largest slave id of the model
MaxSlave == 2
SlaveIds == 0..MaxSlave

\* the inverter with the words ws in the registers the probing reads
Inverter(ws) == [a \in Addresses |-> IF a \in DOMAIN ws THEN ws[a] ELSE a]

\* product models of the two storage units, number of strings, number of
\* optimizers, meter status: nothing but one string; one string that the
\* inverter reports as none; all of it; a battery in the second unit alone
ProbeMemories ==
    {Inverter(113 :> 0 @@ 114 :> 0 @@ 115 :> 1 @@ 116 :> 0 @@ 117 :> 0),
     Inverter(113 :> 0 @@ 114 :> 0 @@ 115 :> 0 @@ 116 :> 0 @@ 117 :> 0),
     Inverter(113 :> 1 @@ 114 :> 1 @@ 115 :> 2 @@ 116 :> 1 @@ 117 :> 1),
     Inverter(113 :> 0 @@ 114 :> 1 @@ 115 :> 1 @@ 116 :> 0 @@ 117 :> 1)}

\* what the transport answers to the reads and writes of the methods
ProbeReadOutcomes == {"Valid", "IllegalAddress", "ConnectionError"}
ProbeWriteOutcomes == {"Valid", "PermissionDenied"}

\* before create: no session, no bridge, no client
InitProbe ==
    \E mem \in ProbeMemories :
        InitWith(mem, FALSE, NewSession(0, "none"),
                 [b \in Bridges |-> NewBridge(None, FALSE)])

NextProbe ==
    \/ \E m \in {"create", "create_rtu"}, slave \in SlaveIds : Create(1, m, slave)
    \/ \E o \in {"connected", "unconnected", "raises"} : TransportUp(1, o)
    \/ \E slave_id \in SlaveIds : CreateExtraSlave(1, slave_id)
    \/ \E b \in Bridges, m \in {"update", "get_info", "set"} : BridgeCall(1, b, m)
    \/ InnerCall(1)
    \/ \E o \in ProbeReadOutcomes : ReadResponse(1, o)
    \/ \E o \in ProbeWriteOutcomes : WriteResponse(1, o)
    \/ CooldownElapsed(1)
    \/ FrameContinues(1)
    \/ frame[1].step \in {"none", "end"} /\ Return(1)
    \/ session.state \in {"probing", "created"} /\ ConnectionChange

SpecProbe == InitProbe /\ [][NextProbe]_vars

(***************************************************************************)
(* One task calling the two bridges of the session, and their heartbeat    *)
(* tasks.  A task that was created or cancelled is ready to run: the loop  *)
(* runs it before it looks at answers and timers.                          *)
(***************************************************************************)
\* no heartbeat task is ready to run
NothingReady ==
    \A b \in Bridges :
        /\ heartbeat_task[b] # "cancelling"
        /\ pc[HeartbeatTask(b)] # "created"

NextBridge ==
    \/ \E b \in Bridges : BridgeLogin(1, b)
    \/ Login(1)
    \/ \E b \in Bridges : StartHeartbeat(1, b)
    \/ \E b \in Bridges : BridgeStop(1, b)
    \/ Return(1)
    \/ \E b \in Bridges : HeartbeatTaskRuns(b)
    \/ \E b \in Bridges : HeartbeatCancelled(b)
    \/ NothingReady /\ \E first_byte \in {17, 0} : ChallengeResponse(1, first_byte)
    \/ NothingReady /\ LoginSleepElapsed(1)
    \/ NothingReady /\ \E r \in LoginResponses : LoginResponse(1, r[1], r[2])
    \/ NothingReady /\ \E o \in LoginErrors : LoginError(1, o)
    \/ NothingReady /\ \E b \in Bridges, o \in HeartbeatOutcomes :
                           HeartbeatResponse(HeartbeatTask(b), o)
    \/ NothingReady /\ \E b \in Bridges : HeartbeatSleepElapsed(b)
    \/ NothingReady /\ ConnectionChange

SpecBridge == Init /\ [][NextBridge]_vars

(***************************************************************************)
(* The claims                                                              *)
(***************************************************************************)
Exchanges == {"get_multiple", "set", "get_file"}
Transient == {"Timeout", "SlaveBusy"}
\* the outcomes that are a response of the inverter
Responses == {"Valid", "BadEcho", "SlaveBusy", "PermissionDenied", "IllegalAddress"}

\* the descriptors of a list of known names
Descriptors(ns) == [i \in 1..Len(ns) |-> REGISTERS[ns[i]]]
AllKnown(ns) == Len(ns) > 0 /\ \A i \in 1..Len(ns) : ns[i] \in KnownNames

\* C1: at most one transport operation is outstanding at any instant,
\* whatever the tasks call on the session.
C1_OneOutstanding == Cardinality(inflight) <= 1

\* C2: a logical read issues its first read_holding_registers only when the
\* logical read before it has had its final response and its cooldown sleep
\* has elapsed.
C2_ReadAfterCooldown ==
    [][\A t \in Tasks :
          (op'[t] = "get_multiple" /\ attempts[t] = 0 /\ attempts'[t] = 1)
              => lastRead \in {"none", "cooled"}]_vars

\* C3: a read, a set and a get_file that had a response from the inverter give
\* the gate back only after their cooldown sleep, whether they end well or
\* with an error.
C3_CooldownBeforeRelease ==
    \A t \in Tasks :
        (op[t] \in Exchanges /\ acquired[t] /\ lock # t
         /\ lastOutcome[t] \in Responses)
            => cooldowns[t] = 1

\* C4: one logical read makes at most max_tries calls of
\* read_holding_registers, and none after a call that brought a valid response.
C4_RetryBound ==
    \A t \in Tasks :
        op[t] = "get_multiple"
            => /\ attempts[t] <= MaxTries
               /\ lastOutcome[t] = "Valid"
                     => /\ pc[t] \in {"cooldown", "done"}
                        /\ <<t, "read_holding_registers">> \notin inflight

C4_Witness ==
    /\ op[1] = "get_multiple"
    /\ attempts[1] = MaxTries
    /\ lastOutcome[1] = "Valid"
    /\ pc[1] = "done"

\* C5: a logical read goes on to another attempt only after a Timeout or a
\* SlaveBusy; after any other error of an attempt it has stopped and the
\* error is with the caller.
C5_RetryOnlyTransient ==
    \A t \in Tasks :
        op[t] = "get_multiple"
            => /\ pc[t] = "backoff" => lastOutcome[t] \in Transient
               /\ (pc[t] = "read" /\ attempts[t] > 1) => lastOutcome[t] \in Transient
               /\ lastOutcome[t] \in {"IllegalAddress", "ConnectionError"}
                     => /\ pc[t] = "done"
                        /\ result[t].status = "raised"
                        /\ result[t].what = "ReadException"
                        /\ result[t].msg = lastOutcome[t]
               /\ tries[t] > attempts[t]
                     => /\ pc[t] = "done"
                        /\ result[t].status = "raised"
                        /\ result[t].what = "ConnectionException"

C5_Witness ==
    /\ op[1] = "get_multiple"
    /\ attempts[1] = 2
    /\ lastOutcome[1] = "IllegalAddress"
    /\ result[1].what = "ReadException"

\* C6: a set whose write ends in Timeout or SlaveBusy is tried again like a
\* read, up to max_tries attempts, and fails with WriteException only when
\* they are used up.
C6_WriteRetried ==
    \A t \in Tasks :
        (op[t] = "set" /\ pc[t] = "done" /\ lastOutcome[t] \in Transient)
            => /\ attempts[t] = MaxTries
               /\ result[t].what = "WriteException"

\* C7: a logical read whose attempts all end in Timeout or SlaveBusy ends
\* after exactly max_tries attempts with a ReadException that carries the
\* number of tries, and does not hold the gate.
C7_Exhaustion ==
    \A t \in Tasks :
        (op[t] = "get_multiple" /\ pc[t] = "done"
         /\ lastOutcome[t] \in Transient /\ tries[t] = attempts[t])
            => /\ attempts[t] = MaxTries
               /\ result[t] = RaisedAfter("ReadException", "giveup", MaxTries)
               /\ lock # t

C7_Witness ==
    /\ op[1] = "get_multiple"
    /\ pc[1] = "done"
    /\ lastOutcome[1] \in Transient
    /\ attempts[1] = MaxTries
    /\ result[1].what = "ReadException"
    /\ lock = NoTask

\* C8: a read answered by k transient failures and then a valid response
\* returns that response after exactly k backoff sleeps, one before each
\* retry, and exactly one cooldown sleep, which follows the valid response.
C8_BackoffsAndCooldown ==
    \A t \in Tasks :
        op[t] = "get_multiple"
            => /\ pc[t] \in {"read", "backoff"} => cooldowns[t] = 0
               /\ pc[t] = "read" => backoffs[t] = attempts[t] - 1
               /\ lastOutcome[t] = "Valid"
                     => /\ backoffs[t] = attempts[t] - 1
                        /\ pc[t] = "cooldown" => cooldowns[t] = 0
                        /\ pc[t] = "done"
                              => /\ cooldowns[t] = 1
                                 /\ result[t] = Returned("response")

C8_Witness ==
    /\ op[1] = "get_multiple"
    /\ pc[1] = "done"
    /\ lastOutcome[1] = "Valid"
    /\ attempts[1] = 3
    /\ backoffs[1] = 2
    /\ cooldowns[1] = 1
    /\ result[1] = Returned("response")

\* a consecutive pair of the list lies more than the gap cap apart
ExceedsGap(ns) ==
    \E i \in 2..Len(ns) :
        Descriptors(ns)[i].register
            - (Descriptors(ns)[i - 1].register + Descriptors(ns)[i - 1].length) > MaxGap

\* a consecutive pair of the list overlaps or is in decreasing order
BreaksOrder(ns) ==
    \E i \in 2..Len(ns) :
        Descriptors(ns)[i - 1].register + Descriptors(ns)[i - 1].length
            > Descriptors(ns)[i].register

\* C9: get_multiple of known names with a consecutive pair more than 64 words
\* apart fails with ValueError and calls the transport not once.
C9_GapRejected ==
    \A t \in Tasks :
        (op[t] = "get_multiple" /\ AllKnown(names[t]) /\ ExceedsGap(names[t]))
            => /\ pc[t] = "done"
               /\ result[t].what = "ValueError"
               /\ attempts[t] = 0

\* C10: get_multiple of known names with a consecutive pair that overlaps or
\* decreases fails with ValueError, calls the transport not once and never
\* asks for the gate.
C10_OrderRejected ==
    \A t \in Tasks :
        (op[t] = "get_multiple" /\ AllKnown(names[t]) /\ BreaksOrder(names[t]))
            => /\ pc[t] = "done"
               /\ result[t].status = "raised"
               /\ result[t].what = "ValueError"
               /\ attempts[t] = 0
               /\ ~acquired[t]
               /\ lock # t
               /\ \A i \in 1..Len(waiters) : waiters[i] # t
               /\ \A x \in inflight : x[1] # t

C10_Witness ==
    /\ op[1] = "get_multiple"
    /\ names[1] = <<"A", "B">>
    /\ pc[1] = "done"
    /\ result[1] = Raised("ValueError", "order")

\* C11: get_multiple of a list that passes its checks asks the transport for
\* the words from the address of the first register to the end of the last
\* one, however many names there are, and when the first attempt is answered
\* that read_holding_registers is the only one.
C11_OneRead ==
    \A t \in Tasks :
        (op[t] = "get_multiple" /\ attempts[t] > 0)
            => LET d == Descriptors(names[t])
               IN  /\ request[t].fn = "read_holding_registers"
                   /\ request[t].a = d[1].register
                   /\ request[t].b = d[Len(d)].register + d[Len(d)].length
                                         - d[1].register
                   /\ (lastOutcome[t] = "Valid" /\ backoffs[t] = 0)
                         => /\ attempts[t] = 1
                            /\ \A x \in inflight : x[1] # t

C11_Witness ==
    /\ op[1] = "get_multiple"
    /\ names[1] = <<"A", "C", "D">>
    /\ pc[1] = "done"
    /\ result[1] = Returned("response")
    /\ attempts[1] = 1
    /\ request[1] = Request("read_holding_registers", 100, 67)

\* C12: get_multiple returns one value for each name, in the order of the
\* names, and each is the value get of that name alone returns from the same
\* memory.
C12_BatchEqualsSingles ==
    \A t \in Tasks :
        (op[t] = "get_multiple" /\ pc[t] = "done" /\ result[t].status = "returned")
            => /\ Len(values[t]) = Len(names[t])
               /\ \A i \in 1..Len(names[t]) :
                      values[t][i] = GetValue(memory, names[t][i])

C12_Witness ==
    /\ op[1] = "get_multiple"
    /\ names[1] = <<"A", "C", "D">>
    /\ pc[1] = "done"
    /\ memory[100] = 12900
    /\ values[1] = <<12900 * 65536 + 13029, 13158, 21414>>

\* C13: get_file asks for the frames 0, 1, 2, ... in order, goes on asking
\* while the data it has put together is shorter than file_length, and sends
\* the Complete request when and only when the data has reached file_length,
\* whatever the start response and the lengths of the frames.
C13_FramesUntilLength ==
    \A t \in Tasks :
        op[t] = "get_file"
            => /\ (file[t].stage = "data" /\ pc[t] = "execute")
                     => /\ request[t] = Request("UploadModbusRequest",
                                                file[t].next_frame_no, 0)
                        /\ Len(file[t].file_data) < file[t].file_length
               /\ file[t].stage = "complete"
                     => Len(file[t].file_data) >= file[t].file_length

\* C14: get_file returns the data only when its CRC-16 is the byte-swapped
\* file_crc of the Complete response; with any other file_crc, and so with
\* the file_crc of a file that differs from the data in one bit, it raises
\* the CRC error, returns nothing and does not hold the gate.
C14_CrcChecked ==
    \A t \in Tasks :
        (op[t] = "get_file" /\ file[t].stage = "complete"
         /\ lastOutcome[t] = "Valid" /\ pc[t] \in {"cooldown", "done"})
            => /\ (pc[t] = "cooldown" \/ result[t].status = "returned")
                     => computeCRC(file[t].file_data) = SwapBytes(file[t].file_crc)
               /\ (computeCRC(file[t].file_data) # SwapBytes(file[t].file_crc)
                   \/ \E d \in OneBitFlips(file[t].file_data) :
                          file[t].file_crc = SwapBytes(computeCRC(d)))
                     => /\ pc[t] = "done"
                        /\ result[t] = Raised("ReadException", "CRC")
                        /\ lock # t

C14_Witness ==
    /\ op[1] = "get_file"
    /\ pc[1] = "done"
    /\ file[1].file_data = <<1, 254, 1>>
    /\ file[1].file_crc = SwapBytes(computeCRC(<<1, 254, 3>>))
    /\ result[1] = Raised("ReadException", "CRC")

\* C15: a request of get_file answered by 0x80 ends it with PermissionDenied
\* at once; answered by SlaveBusy or a timeout it is sent again as it was,
\* after the backoff sleep, six times at most; answered by another exception
\* code it ends get_file with ReadException at once.  The frame of a Data
\* request that was sent again is appended once.
C15_FileRetryState ==
    \A t \in Tasks :
        op[t] = "get_file"
            => /\ attempts[t] <= FileUploadMaxRetries
               /\ pc[t] = "execute" => request[t] = FileRequest(file[t])
               /\ (pc[t] = "backoff" \/ (pc[t] = "execute" /\ attempts[t] > 1))
                     => lastOutcome[t] \in Transient
               /\ lastOutcome[t] = "PermissionDenied"
                     => /\ pc[t] = "done"
                        /\ result[t] = Raised("PermissionDenied", "PermissionDenied")
               /\ lastOutcome[t] = "IllegalAddress"
                     => /\ pc[t] = "done"
                        /\ result[t] = Raised("ReadException", "IllegalAddress")
               /\ (pc[t] = "done" /\ lastOutcome[t] \in Transient)
                     => /\ attempts[t] = FileUploadMaxRetries
                        /\ result[t] = RaisedAfter("ReadException", "giveup",
                                                   FileUploadMaxRetries)

C15_FileRetryStep ==
    \A t \in Tasks :
        /\ (pc[t] = "backoff" /\ op[t] = "get_file" /\ pc'[t] = "execute")
              => /\ request'[t] = request[t]
                 /\ file'[t] = file[t]
                 /\ backoffs'[t] = backoffs[t] + 1
        /\ (pc[t] = "execute" /\ op[t] = "get_file" /\ file[t].stage = "data"
            /\ pc'[t] # "idle")
              => \/ /\ file'[t] = file[t]
                    /\ lastOutcome'[t] # "Valid"
                 \/ /\ lastOutcome'[t] = "Valid"
                    /\ file'[t].next_frame_no = file[t].next_frame_no + 1
                    /\ \E d \in FrameDataAll :
                          file'[t].file_data = file[t].file_data \o d

C15_FileRetry == []C15_FileRetryState /\ [][C15_FileRetryStep]_vars

C15_Witness ==
    /\ op[1] = "get_file"
    /\ file[1].stage = "complete"
    /\ file[1].next_frame_no = 2
    /\ pc[1] = "done"
    /\ lastOutcome[1] \in Transient
    /\ attempts[1] = FileUploadMaxRetries
    /\ result[1].what = "ReadException"

\* the login of bridge b, called in task t, gets the login response in this
\* step
LoginAnswered(t, b) ==
    /\ pc[t] = "login"
    /\ op[t] = "login"
    /\ via[t] = b
    /\ pc'[t] = "done"
    /\ login_response'[t] # NoLoginResponse

\* C16: when the inverter accepts the login of a bridge, the bridge is logged
\* in with the heartbeat enabled and its task started; when it rejects the
\* login, InvalidCredentials is raised and the heartbeat flag, the heartbeat
\* task and the requests in flight of the heartbeat task are as before
C16_BridgeLogin ==
    [][\A t \in Tasks, b \in Bridges :
          LoginAnswered(t, b) =>
             IF login_response'[t].status = 0
             THEN /\ logged_in'[b]
                  /\ enable_heartbeat'[b]
                  /\ heartbeat_task'[b] = "pending"
             ELSE /\ result'[t] = Raised("InvalidCredentials", "")
                  /\ enable_heartbeat' = enable_heartbeat
                  /\ heartbeat_task' = heartbeat_task
                  /\ logged_in' = logged_in
                  /\ \A h \in HeartbeatTasks :
                        /\ pc'[h] = pc[h]
                        /\ request'[h] = request[h]
                  /\ inflight' = inflight \ {<<t, "execute">>}]_vars

\* C17: login of the session returns True exactly when the status of the
\* login response is 0, whether the echoed mac is right or not, and False
\* otherwise; login of a bridge raises InvalidCredentials exactly when the
\* status is not 0; a wrong mac only leaves a warning in the log
C17_LoginByStatus ==
    \A t \in Tasks :
        (op[t] = "login" /\ pc[t] = "done" /\ login_response[t] # NoLoginResponse)
           => /\ via[t] = NoBridge
                    => result[t] = IF login_response[t].status = 0
                                   THEN Returned("True")
                                   ELSE Returned("False")
              /\ via[t] # NoBridge
                    => (result[t] = Raised("InvalidCredentials", "")
                           <=> login_response[t].status # 0)
              /\ login_response[t].logged
                    <=> (login_response[t].status = 0 /\ ~login_response[t].mac_ok)

C17_Witness ==
    /\ op[1] = "login"
    /\ via[1] = NoBridge
    /\ pc[1] = "done"
    /\ login_response[1] = [status |-> 0, mac_ok |-> FALSE, logged |-> TRUE]
    /\ result[1] = Returned("True")

\* C18: the heartbeat of a bridge is enabled only if the bridge has completed
\* a successful login
C18_HeartbeatOnlyLoggedIn ==
    \A b \in Bridges : enable_heartbeat[b] => logged_in[b]

\* the heartbeat task of bridge b starts a write in this step
HeartbeatWriteStarts(b) ==
    /\ <<HeartbeatTask(b), "write_register">> \notin inflight
    /\ <<HeartbeatTask(b), "write_register">> \in inflight'

\* stop of bridge b has returned and start_heartbeat has not run since: the
\* flag is down and the task, if there was one, is cancelled or done
C19_Stopped ==
    \A b \in Bridges :
        stopped[b] => /\ ~enable_heartbeat[b]
                      /\ heartbeat_task[b] \in {"None", "cancelling", "done"}

\* a write of the heartbeat task is the value 1 to register 49999; the task
\* starts it when it runs first or when a sleep of 15 s is over, with the
\* flag up, and never once stop has returned
C19_HeartbeatWrite ==
    \A b \in Bridges :
        HeartbeatWriteStarts(b)
           => /\ request'[HeartbeatTask(b)] =
                     Request("write_register", HeartbeatRegister, 1)
              /\ pc[HeartbeatTask(b)] \in {"created", "heartbeat_sleep"}
              /\ pc'[HeartbeatTask(b)] = "heartbeat"
              /\ enable_heartbeat[b]
              /\ ~stopped[b]

\* C19: the heartbeat loop writes 1 to register 49999, a sleep of 15 s lies
\* between two writes of the loop, and once stop has returned the bridge
\* starts no heartbeat write, whether the task was at the write or at the
\* sleep when stop was called
C19_HeartbeatUntilStop == []C19_Stopped /\ [][C19_HeartbeatWrite]_vars

\* stop was called while the write of a logged in bridge was in flight, and
\* the task has ended by the cancellation
C19_Witness ==
    /\ logged_in["extra"]
    /\ stopped["extra"]
    /\ heartbeat_task["extra"] = "done"
    /\ pc[HeartbeatTask("extra")] = "done"
    /\ result[HeartbeatTask("extra")] = Raised("CancelledError", "")
    /\ request[HeartbeatTask("extra")] = Request("write_register", HeartbeatRegister, 1)
    /\ lastOutcome[HeartbeatTask("extra")] = "none"

\* task t calls stop of bridge b in this step
StopCalled(t, b) ==
    /\ pc[t] = "idle"
    /\ op'[t] = "stop"
    /\ via'[t] = b

\* C20: stop of a bridge that is not primary leaves the client of the
\* session as it is, connection and requests in flight included; stop of
\* the primary bridge stops the client; both put the heartbeat flag down
\* and cancel the heartbeat task
C20_Stop ==
    [][\A t \in Tasks, b \in Bridges :
          StopCalled(t, b) =>
             /\ ~enable_heartbeat'[b]
             /\ heartbeat_task'[b] # "pending"
             /\ pc'[t] = "done"
             /\ inflight' = inflight
             /\ IF b = "primary"
                THEN client_stopped' /\ ~connected'
                ELSE /\ client_stopped' = client_stopped
                     /\ connected' = connected
                     /\ \A other \in Bridges \ {b} :
                           /\ enable_heartbeat'[other] = enable_heartbeat[other]
                           /\ heartbeat_task'[other] = heartbeat_task[other]]_vars

\* after stop of the extra bridge has returned, the login of the primary
\* bridge was made and accepted and its heartbeat write is in flight
C20_Witness ==
    /\ stopped["extra"]
    /\ ~client_stopped
    /\ connected
    /\ op[1] = "login"
    /\ via[1] = "primary"
    /\ result[1] = Returned("None")
    /\ <<HeartbeatTask("primary"), "write_register">> \in inflight

\* C23: set on a writeable register returns True exactly when the write
\* response echoes the address and the count of the request; after every
\* other answer (an exception response, an echo of another address or
\* count) it raises and returns no value
C23_SetEcho ==
    \A t \in Tasks :
        (op[t] = "set" /\ pc[t] = "done" /\ lastOutcome[t] # "none")
           => IF lastOutcome[t] = "Valid"
              THEN result[t] = Returned("True")
              ELSE result[t].status = "raised"

\* get_file has asked for no more Data frames than frame numbers fit the
\* request
C27_FramesBounded ==
    op[1] = "get_file" => file[1].next_frame_no <= FrameNoLimit

\* C27: for every start response, a data_frame_length of 0 with a positive
\* file_length included, get_file of an inverter that answers every request
\* asks for finitely many Data frames, ends, and the gate is free again
C27_GetFileTerminates ==
    /\ []C27_FramesBounded
    /\ (op[1] = "get_file") ~> (pc[1] = "done" /\ lock = NoTask)

\* the start response announced frames of length 0 for a file of length 1:
\* the loop has ended at the frame number that does not fit the request
C27_Witness ==
    /\ op[1] = "get_file"
    /\ file[1].file_length = 1
    /\ file[1].data_frame_length = 0
    /\ file[1].next_frame_no = FrameNoLimit
    /\ pc[1] = "done"
    /\ result[1] = Raised("struct.error", "frame_no")
    /\ lock = NoTask

\* the heartbeat task of bridge b is alive: created and not yet ended
Alive(b) == pc[HeartbeatTask(b)] \notin {"idle", "done"}

\* a task of bridge b is created in this step
TaskCreated(b) == pc[HeartbeatTask(b)] # "created" /\ pc'[HeartbeatTask(b)] = "created"

\* the task the bridge holds is the one that is alive: a task that has ended
\* is done for the bridge, a bridge without a task has none alive
C28_TaskHeld ==
    \A b \in Bridges :
        /\ Alive(b) <=> heartbeat_task[b] \in {"pending", "cancelling"}
        /\ Cardinality({k \in inflight : k[1] = HeartbeatTask(b)}) <= 1

\* a task is created only when the task before it has ended; login and
\* start_heartbeat that find a task alive raise and leave it as it is
C28_TaskStep ==
    \A b \in Bridges :
        /\ TaskCreated(b) => ~Alive(b)
        /\ \A t \in Tasks :
              (Alive(b) /\ via'[t] = b /\ pc[t] # "done" /\ pc'[t] = "done"
               /\ op'[t] \in {"login", "start_heartbeat"}
               /\ (op'[t] = "login" => result'[t].what # "InvalidCredentials"
                                          /\ login_response'[t].status = 0))
                 => /\ result'[t] = Raised("HuaweiSolarException", "still running")
                    /\ pc'[HeartbeatTask(b)] = pc[HeartbeatTask(b)]
                    /\ heartbeat_task'[b] = heartbeat_task[b]

\* C28: at most one heartbeat task of a bridge is alive at any time: login
\* and start_heartbeat called while the task before is not done raise and
\* create no second task
C28_OneHeartbeatTask == []C28_TaskHeld /\ [][C28_TaskStep]_vars

\* a second login was accepted while the task of the first was alive: it
\* raised, the task of the first login still sleeps
C28_Witness ==
    /\ op[1] = "login"
    /\ via[1] = "primary"
    /\ login_response[1].status = 0
    /\ result[1] = Raised("HuaweiSolarException", "still running")
    /\ logged_in["primary"]
    /\ pc[HeartbeatTask("primary")] = "heartbeat_sleep"
    /\ enable_heartbeat["primary"]

\* an attempt of the heartbeat task of bridge b fails in this step: its write
\* is answered by an ExceptionResponse, or the task runs with the flag up and
\* finds the client not connected
AttemptFails(b) ==
    \/ /\ pc[HeartbeatTask(b)] = "heartbeat"
       /\ pc'[HeartbeatTask(b)] # "heartbeat"
       /\ lastOutcome[HeartbeatTask(b)] # "ExceptionResponse"
       /\ lastOutcome'[HeartbeatTask(b)] = "ExceptionResponse"
    \/ /\ pc[HeartbeatTask(b)] \in {"created", "heartbeat_sleep"}
       /\ pc'[HeartbeatTask(b)] # pc[HeartbeatTask(b)]
       /\ heartbeat_task[b] = "pending"
       /\ enable_heartbeat[b]
       /\ ~connected

\* a failed attempt takes the flag down and the task goes to its sleep; the
\* task starts a write only with the flag up; the flag goes up only where
\* start_heartbeat creates a task
C25_Step ==
    \A b \in Bridges :
        /\ AttemptFails(b) => /\ ~enable_heartbeat'[b]
                              /\ pc'[HeartbeatTask(b)] = "heartbeat_sleep"
                              /\ ~HeartbeatWriteStarts(b)
        /\ HeartbeatWriteStarts(b) => enable_heartbeat[b]
        /\ (~enable_heartbeat[b] /\ enable_heartbeat'[b]) => TaskCreated(b)

\* the task that sleeps with the flag down after a failed attempt ends when
\* it runs next
C25_Sleep ==
    \A b \in Bridges :
        (pc[HeartbeatTask(b)] = "heartbeat_sleep" /\ ~enable_heartbeat[b]
           /\ pc'[HeartbeatTask(b)] # "heartbeat_sleep")
              => pc'[HeartbeatTask(b)] = "done"

WasCancelled(t) == pc[t] = "done" /\ result[t] = Raised("CancelledError", "")

\* a cancelled task has left nothing behind: it does not hold the gate, does
\* not wait for it, has no call in flight; the gate is held only by a task
\* inside its exchange, and who is queued for the gate waits for it
C24_Idle ==
    /\ \A t \in Tasks :
          WasCancelled(t) => /\ lock # t
                             /\ \A i \in 1..Len(waiters) : waiters[i] # t
                             /\ \A k \in inflight : k[1] # t
    /\ lock # NoTask => pc[lock] \in ExchangePoints \ {"lock"}
    /\ \A i \in 1..Len(waiters) : pc[waiters[i]] = "lock"

\* C24: a task cancelled where it is suspended in an exchange, at the gate,
\* at a call of the transport, at the cooldown or at a backoff, releases the
\* gate and leaves the session idle: every operation that is under way or
\* started afterwards gets the gate and ends
C24_CancelReleases ==
    /\ []C24_Idle
    /\ \A t \in Tasks : (pc[t] \notin {"idle", "done"}) ~> (pc[t] = "done")

\* task 1 was cancelled while it held the gate and task 2 waited for it: the
\* gate is free and task 2 is the first in its queue
C24_Witness ==
    /\ WasCancelled(1)
    /\ acquired[1]
    /\ lock = NoTask
    /\ waiters = <<2>>
    /\ pc[2] = "lock"

\* a battery slot of the bridge with the fields br is populated
SlotPopulated(br) ==
    br.battery_1_type # StorageProductModelNONE
        \/ br.battery_2_type # StorageProductModelNONE

\* C21: update of a bridge reads the energy storage registers if and only if
\* one of its two battery slots is populated: with both slots at NONE it
\* makes no read of them and its result has none of their keys, with a slot
\* populated the result it returns has them
C21_StorageIffBattery ==
    \A t \in Tasks :
        (frame[t].method = "update" /\ via[t] \in Bridges)
           => /\ ~SlotPopulated(bridge[via[t]])
                    => /\ frame[t].step # "ENERGY_STORAGE_REGISTERS"
                       /\ Range(ENERGY_STORAGE_REGISTERS) \cap frame[t].keys = {}
              /\ (SlotPopulated(bridge[via[t]]) /\ frame[t].step = "end"
                     /\ result[t].status = "returned")
                    => Range(ENERGY_STORAGE_REGISTERS) \subseteq frame[t].keys

\* the battery read of _initialize of task t has raised and create goes on
BatteryProbeRaised(t) ==
    /\ pc[t] = "done"
    /\ via[t] = NoBridge
    /\ frame[t].step = "STORAGE_UNIT_1_PRODUCT_MODEL"
    /\ result[t].status = "raised"
    /\ frame'[t].step # frame[t].step

\* C22: probing an inverter that is no smart logger, an IllegalAddress
\* exception response to the read of STORAGE_UNIT_1_PRODUCT_MODEL sets
\* battery_type to None and the session is created; any other error of that
\* read fails the creation
C22_BatteryProbe ==
    [][\A t \in Tasks :
          BatteryProbeRaised(t)
             => IF lastOutcome[t] = "IllegalAddress"
                THEN /\ session'.battery_type = None
                     /\ session'.state = "created"
                ELSE /\ session'.state = "failed"
                     /\ result'[t].status = "raised"]_vars

\* create fails in this step of task t with the client made: in _initialize,
\* or at connect of the serial client
CreateFails(t) ==
    /\ session.state # "failed"
    /\ session'.state = "failed"
    /\ frame[t].method \in {"create", "create_rtu"}
    /\ session.state = "probing" \/ frame[t].method = "create_rtu"

\* the step in which create fails with the client made stops the client and
\* ends the call with the error
C26_Step ==
    \A t \in Tasks :
        CreateFails(t) => /\ client_stopped'
                          /\ ~connected'
                          /\ pc'[t] = "done"
                          /\ result'[t].status = "raised"

\* no session is probed or returned with its client stopped, and a
\* create_rtu that failed has left no client open
C26_State ==
    /\ session.state \in {"probing", "created"} /\ frame[1].step # "end"
          => ~client_stopped
    /\ (session.state = "failed" /\ frame[1].method = "create_rtu")
          => client_stopped

\* C26: when create or create_rtu fails after the client was made, by
\* whatever error of the probing, the client is stopped before the error
\* reaches the caller
C26_FailedCreateStops == []C26_State /\ [][C26_Step]_vars

\* the time zone was read, the battery read was answered by IllegalAddress:
\* create has raised the ReadException and the client is stopped
C26_Witness ==
    /\ session.state = "failed"
    /\ session.time_zone # None
    /\ frame[1].method = "create"
    /\ result[1] = Raised("ReadException", "IllegalAddress")
    /\ client_stopped
    /\ ~connected

\* the slave a bridge stands for: the one given to create for the primary
\* bridge, slave_id for a bridge of create_extra_slave
OwnSlave(b) == IF Primary(b) THEN session.slave ELSE bridge[b].slave_id

\* C29: every request a method of a bridge other than login hands to the
\* transport (the reads of the probing, of update and get_info, the write of
\* set, the heartbeat) carries the slave the bridge stands for, the extra
\* bridge of slave 0 on a session of another slave included
C29_OwnSlave ==
    \A t \in AllTasks :
        (via[t] \in Bridges /\ op[t] # "login" /\ \E k \in inflight : k[1] = t)
           => UnitOf(t) = OwnSlave(via[t])

====
